---- MODULE Spec2Model ----
(***************************************************************************)
(* Model of the PDF extraction-and-chunking pipeline                       *)
(* (enhancedPdfProcessor: estimateTokens, chunkText, processEnhancedPDF)   *)
(* and of the OcrService singleton.                                        *)
(*                                                                         *)
(* Strings are sequences of one-character strings, so that trim, split on  *)
(* blank lines and whitespace normalisation are computed character by      *)
(* character as the JavaScript code computes them.                         *)
(***************************************************************************)
EXTENDS Integers, Sequences, FiniteSets, TLC

\* ------------------------------------------------------------------------
\* Bounds of the model
\* ------------------------------------------------------------------------
MaxBlocks == 5      \* chunkText inputs: a text is at most this many blocks
MaxMapLen == 3      \* chunkText inputs: longest paragraph->page map drawn
MaxPageNo == 2      \* chunkText inputs: largest page number in a drawn map
MaxTok == 2         \* chunkText inputs: largest maxTokens drawn
MaxPages == 3       \* processEnhancedPDF: largest page count of a document
ConcPages == 1      \* concurrent runs: largest page count of a document
MaxPromises == 2    \* OcrService: initialisation promises ever created
MaxCalls == 3       \* OcrService: calls each caller makes
MaxGenHeadings == 30 \* extractHeadings inputs: distinct headings leading a text
MaxLines == 3       \* extractHeadings inputs: further lines of a text
MaxHandled == 3     \* uploader: calls of handleFile
MaxTimers == 3      \* uploader: retry timers pending at a time
MaxCount == 2       \* generateQuestions: largest count asked of a question type
MaxBlocksInText == 3  \* generateQuestions: blocks in a response text

\* ------------------------------------------------------------------------
\* Strings
\* ------------------------------------------------------------------------
SP == " "
NL == "\n"

\* JavaScript \s and String.prototype.trim whitespace, restricted to the
\* two whitespace characters the modelled texts contain.
IsWs(c) == c \in {SP, NL}

Rep(c, n) == [i \in 1..n |-> c]

SetMin(S) == CHOOSE x \in S : \A y \in S : x <= y
SetMax(S) == CHOOSE x \in S : \A y \in S : x >= y

\* s.trim()
Trim(s) ==
  LET idx == {i \in 1..Len(s) : ~IsWs(s[i])}
  IN  IF idx = {} THEN <<>> ELSE SubSeq(s, SetMin(idx), SetMax(idx))

\* s.replace(/\s+/g, ' '): every maximal whitespace run becomes one space
CollapseWs(s) ==
  LET tagged == [i \in 1..Len(s) |->
                   [c |-> IF IsWs(s[i]) THEN SP ELSE s[i],
                    inRun |-> IsWs(s[i]) /\ i > 1 /\ IsWs(s[i - 1])]]
      kept == SelectSeq(tagged, LAMBDA t : ~t.inRun)
  IN  [j \in 1..Len(kept) |-> kept[j].c]

\* fullText.replace(/\s+/g, ' ').trim()
CleanUp(s) == Trim(CollapseWs(s))

\* The newlines after i that a match of /\n\s*\n/ starting at i can end at:
\* those reached from i through whitespace only
MatchEnds(s, i) ==
  {j \in (i + 1)..Len(s) : s[j] = NL /\ \A k \in i..j : IsWs(s[k])}

\* s.split(/\n\s*\n/) from index from on: the leftmost match starts at the
\* first newline with a newline later in the same whitespace run; \s* is
\* greedy, so the match ends at the last such newline.
RECURSIVE SplitFrom(_, _)
SplitFrom(s, from) ==
  LET starts == {i \in from..Len(s) : s[i] = NL /\ MatchEnds(s, i) # {}}
  IN  IF starts = {} THEN <<SubSeq(s, from, Len(s))>>
      ELSE LET i == SetMin(starts)
           IN  <<SubSeq(s, from, i - 1)>> \o SplitFrom(s, SetMax(MatchEnds(s, i)) + 1)

SplitBlankLines(s) == SplitFrom(s, 1)

\* text.split(/\n\s*\n/).filter(p => p.trim().length > 0)
Paragraphs(s) == SelectSeq(SplitBlankLines(s), LAMBDA p : Len(Trim(p)) > 0)

\* Concatenation of the strings of ss with sep between them
RECURSIVE JoinWith(_, _)
JoinWith(ss, sep) ==
  IF ss = <<>> THEN <<>>
  ELSE IF Len(ss) = 1 THEN ss[1]
  ELSE ss[1] \o sep \o JoinWith(Tail(ss), sep)

ParaSep == <<NL, NL>>

\* ------------------------------------------------------------------------
\* estimateTokens, chunkText
\* ------------------------------------------------------------------------
\* Math.ceil(text.length / 4)
estimateTokens(text) == (Len(text) + 3) \div 4

DEFAULT_MAX_TOKENS == 2000

MkChunk(content, startPage, endPage) ==
  [content |-> content, pageStart |-> startPage, pageEnd |-> endPage,
   tokenCount |-> estimateTokens(content), extractionMethod |-> "digital"]

\* The 0-based index of the last paragraph taken for its page
FinalEndPageIndex(paragraphPageMap, nParagraphs) == nParagraphs - 1

\* Line 141: page of the last paragraph, used by the final flush
FinalEndPage(paragraphPageMap, nParagraphs) == paragraphPageMap[nParagraphs]

\* The page of the overflowing paragraph itself
FlushEndPageOfOverflowing(paragraphPageMap, i) == paragraphPageMap[i]

\* Line 122: page of the paragraph before the overflowing one, the i-th
\* (1-based), used by a flush inside the loop
FlushEndPage(paragraphPageMap, i) == paragraphPageMap[i - 1]

\* The paragraph appended without its separator
PotentialChunkNoSeparator(currentChunk, paragraph) == currentChunk \o paragraph

\* Line 118: the buffer with the next paragraph appended
PotentialChunk(currentChunk, paragraph) ==
  currentChunk \o (IF currentChunk # <<>> THEN ParaSep ELSE <<>>) \o paragraph

\* The budget checked on the buffer instead of the candidate
OverflowsBuffer(potentialChunk, currentChunk, maxTokens) ==
  estimateTokens(currentChunk) > maxTokens /\ currentChunk # <<>>

\* Line 120: the candidate exceeds the budget and the buffer is not empty
Overflows(potentialChunk, currentChunk, maxTokens) ==
  estimateTokens(potentialChunk) > maxTokens /\ currentChunk # <<>>

\* The for loop of chunkText from paragraph i (1-based) on, followed by the
\* final flush.  chunkStart is the 1-based index of the buffer's first
\* paragraph.
RECURSIVE ChunkLoop(_, _, _, _, _, _, _)
ChunkLoop(paragraphs, paragraphPageMap, maxTokens, i, currentChunk, chunkStart, chunks) ==
  IF i > Len(paragraphs)
  THEN IF currentChunk # <<>> /\ Len(Trim(currentChunk)) > 0
       THEN Append(chunks, MkChunk(currentChunk, paragraphPageMap[chunkStart],
                                   FinalEndPage(paragraphPageMap, Len(paragraphs))))
       ELSE chunks
  ELSE LET paragraph == Trim(paragraphs[i])
           potentialChunk == PotentialChunk(currentChunk, paragraph)
       IN  IF Overflows(potentialChunk, currentChunk, maxTokens)
           THEN ChunkLoop(paragraphs, paragraphPageMap, maxTokens, i + 1,
                          paragraph, i,
                          IF Len(Trim(currentChunk)) > 0
                          THEN Append(chunks, MkChunk(currentChunk,
                                                      paragraphPageMap[chunkStart],
                                                      FlushEndPage(paragraphPageMap, i)))
                          ELSE chunks)
           ELSE ChunkLoop(paragraphs, paragraphPageMap, maxTokens, i + 1,
                          potentialChunk, chunkStart, chunks)

\* chunkText(text, paragraphPageMap, maxTokens): ok = FALSE stands for the
\* Error thrown by the input validation.
chunkText(text, paragraphPageMap, maxTokens) ==
  LET paragraphs == Paragraphs(text)
  IN  IF Len(paragraphPageMap) # Len(paragraphs)
      THEN [ok |-> FALSE, chunks |-> <<>>]
      ELSE [ok |-> TRUE,
            chunks |-> ChunkLoop(paragraphs, paragraphPageMap, maxTokens,
                                 1, <<>>, 1, <<>>)]

\* A page map read past its end gives undefined, written 0
PaddedMap(paragraphPageMap, n) ==
  [i \in 1..(IF n > Len(paragraphPageMap) THEN n ELSE Len(paragraphPageMap)) |->
     IF i <= Len(paragraphPageMap) THEN paragraphPageMap[i] ELSE 0]

\* chunkText of lib/enhancedPdfProcessor.ts: the same loop on the trimmed
\* paragraphs, without the validation of the page map
chunkTextUnvalidated(text, paragraphPageMap, maxTokens) ==
  LET paragraphs == Paragraphs(text)
  IN  [ok |-> TRUE,
       chunks |-> ChunkLoop(paragraphs,
                            PaddedMap(paragraphPageMap, Len(paragraphs)),
                            maxTokens, 1, <<>>, 1, <<>>)]

\* ------------------------------------------------------------------------
\* extractHeadings
\* ------------------------------------------------------------------------
UpperChars ==
  {"A", "B", "C", "D", "E", "F", "G", "H", "I", "J", "K", "L", "M",
   "N", "O", "P", "Q", "R", "S", "T", "U", "V", "W", "X", "Y", "Z"}
LowerChars ==
  {"a", "b", "c", "d", "e", "f", "g", "h", "i", "j", "k", "l", "m",
   "n", "o", "p", "q", "r", "s", "t", "u", "v", "w", "x", "y", "z"}
DigitChars == {"0", "1", "2", "3", "4", "5", "6", "7", "8", "9"}

\* text.split('\n'): the pieces between consecutive newlines
SplitLines(s) ==
  LET nls == {i \in 1..Len(s) : s[i] = NL}
      n == Cardinality(nls)
      pos(k) == CHOOSE i \in nls : Cardinality({j \in nls : j < i}) = k - 1
  IN  [k \in 1..(n + 1) |->
         SubSeq(s, IF k = 1 THEN 1 ELSE pos(k - 1) + 1,
                   IF k = n + 1 THEN Len(s) ELSE pos(k) - 1)]

\* /^[A-Z][A-Za-z\s\d,:;\-]{0,80}$/.test(t) && !/[.?!]$/.test(t)
TitleLike(t) ==
  /\ Len(t) >= 1
  /\ t[1] \in UpperChars
  /\ Len(t) - 1 <= 80
  /\ \A i \in 2..Len(t) :
       \/ t[i] \in UpperChars \cup LowerChars \cup DigitChars
       \/ IsWs(t[i])
       \/ t[i] \in {",", ":", ";", "-"}
  /\ t[Len(t)] \notin {".", "?", "!"}

\* /^\d+[.)]\s/.test(t)
Numbered(t) ==
  \E k \in 1..Len(t) :
    /\ \A i \in 1..k : t[i] \in DigitChars
    /\ Len(t) >= k + 2
    /\ t[k + 1] \in {".", ")"}
    /\ IsWs(t[k + 2])

\* /^word\s+\d+/i.test(t), word given as the two cases of each letter
KeywordNumber(word, t) ==
  /\ Len(t) >= Len(word) + 2
  /\ \A i \in 1..Len(word) : t[i] \in word[i]
  /\ \E k \in (Len(word) + 1)..(Len(t) - 1) :
       /\ \A i \in (Len(word) + 1)..k : IsWs(t[i])
       /\ t[k + 1] \in DigitChars

ChapterWord ==
  << {"C", "c"}, {"H", "h"}, {"A", "a"}, {"P", "p"}, {"T", "t"}, {"E", "e"},
     {"R", "r"} >>
SectionWord ==
  << {"S", "s"}, {"E", "e"}, {"C", "c"}, {"T", "t"}, {"I", "i"}, {"O", "o"},
     {"N", "n"} >>

\* A line of any length taken for a heading
IsHeadingOfAnyLength(t) ==
  /\ Len(t) > 0
  /\ \/ TitleLike(t)
     \/ Numbered(t)
     \/ KeywordNumber(ChapterWord, t)
     \/ KeywordNumber(SectionWord, t)

\* Lines 73-80: the test a trimmed line passes to be pushed
IsHeading(t) ==
  /\ Len(t) > 0
  /\ Len(t) < 100
  /\ \/ TitleLike(t)
     \/ Numbered(t)
     \/ KeywordNumber(ChapterWord, t)
     \/ KeywordNumber(SectionWord, t)

\* Every pushed heading kept, repeats included
KeepAll(hs) == hs

\* Line 85: [...new Set(headings)], the elements in order of first insertion
UniqueInOrder(hs) ==
  LET tagged == [i \in 1..Len(hs) |->
                   [h |-> hs[i], first |-> \A j \in 1..(i - 1) : hs[j] # hs[i]]]
      kept == SelectSeq(tagged, LAMBDA x : x.first)
  IN  [j \in 1..Len(kept) |-> kept[j].h]

MAX_HEADINGS == 30

\* Lines 69-84: the trimmed lines pushed, in order
PushedHeadings(text) ==
  LET lines == SplitLines(text)
      trimmed == [i \in 1..Len(lines) |-> Trim(lines[i])]
  IN  SelectSeq(trimmed, IsHeading)

\* Lines 68-86
extractHeadings(text) ==
  LET unique == UniqueInOrder(PushedHeadings(text))
  IN  SubSeq(unique, 1, IF Len(unique) < MAX_HEADINGS THEN Len(unique) ELSE MAX_HEADINGS)

\* ------------------------------------------------------------------------
\* chunkText applied to drawn inputs
\* ------------------------------------------------------------------------
VARIABLES
  ckText, ckMap, ckMax, ckPc, ckOut,   \* a call of chunkText on drawn inputs
  hdText, hdPc, hdOut,                 \* a call of extractHeadings
  file, doc, run, workers,             \* processEnhancedPDF runs
  svc, promises, svcWorkers, callers,  \* an OcrService and its callers
  up,                                  \* an EnhancedPDFUploader component
  api,                                 \* a call of callGeminiApi
  gen                                  \* a call of generateQuestions

ckVars == <<ckText, ckMap, ckMax, ckPc, ckOut>>
hdVars == <<hdText, hdPc, hdOut>>
pipeVars == <<file, doc, run, workers>>
svcVars == <<svc, promises, svcWorkers, callers>>
upVars == <<up>>
apiVars == <<api>>
genVars == <<gen>>
vars == <<ckVars, hdVars, pipeVars, svcVars, upVars, apiVars, genVars>>

Blocks == { <<"a">>, Rep("b", 5), <<SP>>, <<NL>>, <<NL, NL>> }

RECURSIVE Concat(_)
Concat(ss) == IF ss = <<>> THEN <<>> ELSE ss[1] \o Concat(Tail(ss))

BlockTexts == { Concat(bs) : bs \in UNION { [1..n -> Blocks] : n \in 0..MaxBlocks } }

\* The page maps of n entries
MapsOfLen(n) == IF n > MaxMapLen THEN {} ELSE [1..n -> 1..MaxPageNo]

\* The page maps drawn for a text: every map of the length chunkText
\* accepts and every map one entry longer, which it rejects
PageMapsFor(text) ==
  MapsOfLen(Len(Paragraphs(text))) \cup MapsOfLen(Len(Paragraphs(text)) + 1)

NoOut == [ok |-> FALSE, chunks |-> <<>>]

CkInit ==
  /\ ckText \in BlockTexts
  /\ ckMap \in PageMapsFor(ckText)
  /\ ckMax \in 1..MaxTok
  /\ ckPc = "call"
  /\ ckOut = NoOut

\* The call returns its chunks
ChunkTextReturns ==
  /\ ckPc = "call"
  /\ chunkText(ckText, ckMap, ckMax).ok
  /\ ckOut' = chunkText(ckText, ckMap, ckMax)
  /\ ckPc' = "returned"
  /\ UNCHANGED <<ckText, ckMap, ckMax>>
  /\ UNCHANGED <<hdVars, pipeVars, svcVars, upVars, apiVars, genVars>>

\* The call throws on a page map of the wrong length
ChunkTextThrows ==
  /\ ckPc = "call"
  /\ ~chunkText(ckText, ckMap, ckMax).ok
  /\ ckOut' = NoOut
  /\ ckPc' = "threw"
  /\ UNCHANGED <<ckText, ckMap, ckMax>>
  /\ UNCHANGED <<hdVars, pipeVars, svcVars, upVars, apiVars, genVars>>

\* ------------------------------------------------------------------------
\* extractHeadings applied to drawn inputs
\* ------------------------------------------------------------------------
NumberedIntro ==
  <<"1", ".", " ", "I", "n", "t", "r", "o", "d", "u", "c", "t", "i", "o", "n">>
UpperIntro ==
  <<"I", "N", "T", "R", "O", "D", "U", "C", "T", "I", "O", "N", " ", "T", "O",
    " ", "A", "L", "G", "O", "R", "I", "T", "H", "M", "S">>

\* The lines a drawn text is made of: headings of each pattern, the same
\* heading padded, and lines that are not headings
HeadingLines ==
  { NumberedIntro,
    <<SP>> \o NumberedIntro \o <<SP>>,
    UpperIntro,
    <<"c", "h", "a", "p", "t", "e", "r", " ", " ", "2">>,
    <<"S", "e", "c", "t", "i", "o", "n", " ", "3", ".">>,
    <<"I", "t", " ", "e", "n", "d", "s", ".">>,
    Rep("A", 82),
    <<"7", ")", " ">> \o Rep("z", 97),
    <<>> }

\* The i-th of a family of distinct headings, i < 100
GenHeading(i) ==
  LET digits == <<"0", "1", "2", "3", "4", "5", "6", "7", "8", "9">>
  IN  <<"Q", digits[(i \div 10) + 1], digits[(i % 10) + 1]>>

\* A text of k distinct headings followed by the lines ls
HeadingText(k, ls) ==
  JoinWith([i \in 1..(k + Len(ls)) |->
              IF i <= k THEN GenHeading(i) ELSE ls[i - k]], <<NL>>)

HeadingTexts ==
  { HeadingText(k, ls) :
      k \in {0, MaxGenHeadings},
      ls \in UNION { [1..n -> HeadingLines] : n \in 0..MaxLines } }

HdInit ==
  /\ hdText \in HeadingTexts
  /\ hdPc = "call"
  /\ hdOut = <<>>

HdIdle == hdText = <<>> /\ hdPc = "off" /\ hdOut = <<>>

\* The call returns its headings
ExtractHeadingsReturns ==
  /\ hdPc = "call"
  /\ hdOut' = extractHeadings(hdText)
  /\ hdPc' = "returned"
  /\ UNCHANGED hdText
  /\ UNCHANGED <<ckVars, pipeVars, svcVars, upVars, apiVars, genVars>>

\* ------------------------------------------------------------------------
\* processEnhancedPDF
\* ------------------------------------------------------------------------
RunIds == {"A", "B"}

Null == "null"
NoWorker == 0
OcrInitMessage == "Failed to initialize OCR engine. OCR will be skipped for scanned pages."

MAX_FILE_SIZE == 50 * 1024 * 1024
MIN_TEXT_LENGTH == 50

\* Text layers a page of a document can carry
Digital51 == Rep("a", 51)
DigitalSpaced == Rep("a", 30) \o <<SP, SP>> \o Rep("b", 30)
Boundary50 == Rep("a", 50)
NoLayer == <<>>
PageTexts == {Digital51, DigitalSpaced, Boundary50, NoLayer}

\* What worker.recognize can report for a rendered page
OcrTexts == { <<>>, <<SP, NL>>, <<"o", "c", "r">>, <<"o", NL, NL, "c">> }
Confidences == {0, 60, 100}

\* The recognitions drawn: nothing recognised, whitespace only, one
\* paragraph at the lowest and at the highest confidence, two paragraphs
OcrOutcomes ==
  { o \in [text : OcrTexts, confidence : Confidences] :
      \/ o.text = <<>> /\ o.confidence = 0
      \/ o.text = <<SP, NL>> /\ o.confidence = 60
      \/ o.text = <<"o", "c", "r">> /\ o.confidence \in {0, 100}
      \/ o.text = <<"o", NL, NL, "c">> /\ o.confidence = 100 }

\* file.type values: MIME types as character sequences
ApplicationPdf ==
  <<"a", "p", "p", "l", "i", "c", "a", "t", "i", "o", "n", "/", "p", "d", "f">>
ApplicationXPdf ==
  <<"a", "p", "p", "l", "i", "c", "a", "t", "i", "o", "n", "/", "x", "-", "p", "d", "f">>
TextPlain == <<"t", "e", "x", "t", "/", "p", "l", "a", "i", "n">>

FileTypes == {ApplicationPdf, ApplicationXPdf, TextPlain}
FileSizes == {1024, MAX_FILE_SIZE, MAX_FILE_SIZE + 1}

DocsUpTo(n) == UNION { [1..k -> PageTexts] : k \in 0..n }

\* A percentage num/den, kept exact
Ratio(num, den) == [num |-> num, den |-> den]

NoMetadata ==
  [hasDigitalText |-> FALSE, hasScannedContent |-> FALSE,
   ocrAttempted |-> FALSE, ocrSucceeded |-> FALSE,
   ocrConfidence |-> Ratio(0, 1)]

NoOutcome ==
  [kind |-> "none", code |-> "", recoverable |-> FALSE, chunks |-> <<>>,
   topics |-> <<>>, metadata |-> NoMetadata]

\* The local variables of one call, as declared at lines 205-210 and
\* 249-254, with the position of the call (pc).  The fields progress,
\* initAttempts, recognizeCalls, recognizedWith, recognitions, terminateCalls,
\* terminateThrew, loadCalls, ioThrew and chunkTextThrew record the calls the
\* run has made and what they gave; settled is what the returned promise
\* settled with.
\* The two revisions of the processor in the repository: the one that
\* defines initializeOcrWorkerIfNeeded and validates the page map, and
\* lib/enhancedPdfProcessor.ts, which does neither
CompleteRevision == "part_006"
LibRevision == "lib"

NewRun ==
  [pc |-> "start",
   revision |-> CompleteRevision,
   ocrWorker |-> NoWorker,
   ocrInitializationError |-> Null,
   ocrAttemptedOnDocument |-> FALSE,
   ocrSucceededOnAnyPage |-> FALSE,
   warnings |-> <<>>,
   totalPages |-> 0,
   fullText |-> <<>>,
   hasDigitalText |-> FALSE,
   hasScannedContent |-> FALSE,
   totalConfidence |-> 0,
   ocrPageCount |-> 0,
   paragraphPageMap |-> <<>>,
   pageNum |-> 0,
   outcome |-> NoOutcome,
   progress |-> <<>>,
   initAttempts |-> 0,
   recognizeCalls |-> 0,
   recognizedWith |-> {},
   terminateCalls |-> 0,
   ioThrew |-> FALSE,
   loadCalls |-> 0,
   recognitions |-> <<>>,
   chunkTextThrew |-> FALSE,
   terminateThrew |-> FALSE,
   settled |-> NoOutcome]

NotStarted == [NewRun EXCEPT !.pc = "off"]

\* The error built without its third argument: recoverable defaults to true
ThrowDefaultRecoverable(l, code, recoverable) ==
  [l EXCEPT !.pc = "finally",
            !.outcome = [NoOutcome EXCEPT !.kind = "error", !.code = code,
                                          !.recoverable = TRUE]]

\* new PDFProcessingError(message, code, recoverable) thrown to the caller
Throw(l, code, recoverable) ==
  [l EXCEPT !.pc = "finally",
            !.outcome = [NoOutcome EXCEPT !.kind = "error", !.code = code,
                                          !.recoverable = recoverable]]

\* catch (error): anything that is not a PDFProcessingError is wrapped
CatchUnexpected(l) == Throw(l, "PROCESSING_FAILED", TRUE)

\* An awaited call of pdf.js rejected
IoThrows(l) == CatchUnexpected([l EXCEPT !.ioThrew = TRUE])

\* Lines 244, 248, 329, 357: the percentage of a milestone event
StagePercent(stage) ==
  CASE stage = "loading" -> 10
    [] stage = "extracting" -> 20
    [] stage = "chunking" -> 80
    [] stage = "complete" -> 100

\* onProgress called at a milestone; page 0 marks an event of no page
Report(l, stage) ==
  [l EXCEPT !.progress =
     Append(@, [stage |-> stage, percent |-> Ratio(StagePercent(stage), 1),
                page |-> 0])]

\* The page share of the percentage without its base of 20
PageProgressNoBase(pageNum, totalPages) == Ratio(50 * pageNum, totalPages)

\* Line 262: 20 + (pageNum / totalPages) * 50
PageProgress(pageNum, totalPages) ==
  Ratio(20 * totalPages + 50 * pageNum, totalPages)

\* Lines 277-281, 287-291, 317-321: onProgress called for the current page
ReportPage(l, stage) ==
  [l EXCEPT !.progress =
     Append(@, [stage |-> stage,
                percent |-> PageProgress(l.pageNum, l.totalPages),
                page |-> l.pageNum])]

\* Line 354: ocrPageCount > 0 ? totalConfidence / ocrPageCount : 0
AvgConfidence(totalConfidence, ocrPageCount) ==
  IF ocrPageCount > 0 THEN Ratio(totalConfidence, ocrPageCount) ELSE Ratio(0, 1)

\* hasScannedContent reported as the negation of hasDigitalText
MetadataScannedIsNotDigital(l) ==
  [hasDigitalText |-> l.hasDigitalText,
   hasScannedContent |-> ~l.hasDigitalText,
   ocrAttempted |-> l.ocrAttemptedOnDocument,
   ocrSucceeded |-> l.ocrSucceededOnAnyPage,
   ocrConfidence |-> AvgConfidence(l.totalConfidence, l.ocrPageCount)]

\* Lines 365-373: the metadata of the result
Metadata(l) ==
  [hasDigitalText |-> l.hasDigitalText,
   hasScannedContent |-> l.hasScannedContent,
   ocrAttempted |-> l.ocrAttemptedOnDocument,
   ocrSucceeded |-> l.ocrSucceededOnAnyPage,
   ocrConfidence |-> AvgConfidence(l.totalConfidence, l.ocrPageCount)]

\* The chunks taken from the text as it was before the clean-up
ChunkInputRaw(rawText, cleanText) == rawText

\* Lines 331 and 353: chunkText is given the text after the clean-up
ChunkInput(rawText, cleanText) == cleanText

\* Lines 329-374: clean up the text, classify an empty text, extract the
\* topics and the chunks and return the result.
AfterLoop(l0) ==
  LET l1 == Report(l0, "chunking")
      l == [l1 EXCEPT !.fullText = CleanUp(l1.fullText)]
      noText == l.fullText = <<>>
      text == ChunkInput(l1.fullText, l.fullText)
      chunked == IF l.revision = LibRevision
                 THEN chunkTextUnvalidated(text, l.paragraphPageMap,
                                           DEFAULT_MAX_TOKENS)
                 ELSE chunkText(text, l.paragraphPageMap, DEFAULT_MAX_TOKENS)
  IN  IF noText /\ l.ocrInitializationError # Null /\ ~l.hasDigitalText
      THEN Throw(l, "OCR_INIT_FAILED_NO_TEXT", FALSE)
      ELSE IF noText /\ ~l.hasDigitalText /\ l.hasScannedContent
              /\ l.ocrInitializationError = Null
      THEN Throw(l, "NO_TEXT_EXTRACTED_OCR_EMPTY", FALSE)
      ELSE IF noText
      THEN Throw(l, "NO_TEXT_EXTRACTED", FALSE)
      ELSE IF ~chunked.ok
      THEN CatchUnexpected([l EXCEPT !.chunkTextThrew = TRUE])
      ELSE [Report(l, "complete") EXCEPT
              !.pc = "finally",
              !.outcome = [kind |-> "result", code |-> "", recoverable |-> FALSE,
                           chunks |-> chunked.chunks,
                           topics |-> extractHeadings(l.fullText),
                           metadata |-> Metadata(l)]]

\* End of one iteration of the page loop
NextPage(l) ==
  IF l.pageNum < l.totalPages
  THEN [l EXCEPT !.pageNum = @ + 1, !.pc = "getPage"]
  ELSE AfterLoop(l)

\* Lines 269-273 and 306-310: one map entry per paragraph of the page
PushPage(map, text, pageNum) == map \o Rep(pageNum, Len(Paragraphs(text)))

NoParagraphs(text) == Len(Paragraphs(text)) = 0

\* The event of a digital page reported with the stage of the other branch
DigitalPageStageOcr(l, pageText) ==
  LET l1 == [l EXCEPT !.fullText = @ \o pageText \o <<NL, NL>>,
                      !.hasDigitalText = TRUE,
                      !.paragraphPageMap = PushPage(@, pageText, l.pageNum),
                      !.warnings = IF NoParagraphs(pageText)
                                   THEN Append(@, "No paragraphs detected on page.")
                                   ELSE @]
  IN  NextPage(ReportPage(l1, "ocr"))

\* Lines 264-281: the page has a digital text layer
DigitalPage(l, pageText) ==
  LET l1 == [l EXCEPT !.fullText = @ \o pageText \o <<NL, NL>>,
                      !.hasDigitalText = TRUE,
                      !.paragraphPageMap = PushPage(@, pageText, l.pageNum),
                      !.warnings = IF NoParagraphs(pageText)
                                   THEN Append(@, "No paragraphs detected on page.")
                                   ELSE @]
  IN  NextPage(ReportPage(l1, "extracting"))

\* The guard without its test of the recorded failure
NeedsOcrInitNoErrorTest(l) == l.ocrWorker = NoWorker

\* Line 213: the guard of initializeOcrWorkerIfNeeded
NeedsOcrInit(l) == l.ocrWorker = NoWorker /\ l.ocrInitializationError = Null

\* Lines 220-224: the catch of initializeOcrWorkerIfNeeded
RecordInitFailure(l) ==
  [l EXCEPT !.ocrInitializationError = OcrInitMessage,
            !.warnings = Append(@, OcrInitMessage)]

\* Line 286: recognition is attempted on this page
CanRecognize(l) == l.ocrWorker # NoWorker /\ l.ocrInitializationError = Null

\* Lines 286-322, after initializeOcrWorkerIfNeeded has returned: hasContext
\* is whether canvas.getContext('2d') gave a context.
AfterOcrInit(l, hasContext) ==
  IF CanRecognize(l)
  THEN IF hasContext
       THEN [ReportPage(l, "ocr") EXCEPT !.pc = "render"]
       ELSE NextPage(ReportPage(l, "ocr"))
  ELSE IF l.ocrInitializationError # Null
  THEN NextPage(ReportPage(l, "ocr"))
  ELSE NextPage(l)

\* The confidence accumulated before the test of the text
OcrPageCountsEmpty(l, text, confidence) ==
  LET c == [l EXCEPT !.totalConfidence = @ + confidence,
                     !.ocrPageCount = @ + 1]
  IN  IF Trim(text) # <<>>
      THEN [c EXCEPT !.fullText = @ \o text \o <<NL, NL>>,
                     !.ocrSucceededOnAnyPage = TRUE,
                     !.paragraphPageMap = PushPage(@, text, l.pageNum),
                     !.warnings = IF NoParagraphs(text)
                                  THEN Append(@, "No paragraphs detected on page (OCR).")
                                  ELSE @]
      ELSE c

\* Lines 300-314: the text recognised on the page is added
OcrPage(l, text, confidence) ==
  IF Trim(text) # <<>>
  THEN [l EXCEPT !.fullText = @ \o text \o <<NL, NL>>,
                 !.totalConfidence = @ + confidence,
                 !.ocrPageCount = @ + 1,
                 !.ocrSucceededOnAnyPage = TRUE,
                 !.paragraphPageMap = PushPage(@, text, l.pageNum),
                 !.warnings = IF NoParagraphs(text)
                              THEN Append(@, "No paragraphs detected on page (OCR).")
                              ELSE @]
  ELSE l

\* A worker whose initialisation failed is left alone
NeedsTerminateIfReady(l) == l.ocrWorker # NoWorker /\ l.ocrInitializationError = Null

\* Line 385: the finally block terminates the worker
NeedsTerminate(l) == l.ocrWorker # NoWorker

WorkerIds == 1..Len(workers)

\* One worker variable shared by all runs: the worker created last
RecognitionWorkerShared(r) == Len(workers)

\* Line 299: the worker handed to processPageWithOCR
RecognitionWorker(r) == run[r].ocrWorker

NewWorker(r) == [owner |-> r, terminatedBy |-> {}, recognizedBy |-> {}, terminateCalls |-> 0]

\* --- actions -------------------------------------------------------------
Others == UNCHANGED <<ckVars, hdVars, svcVars, upVars, apiVars, genVars>>

\* s.includes(sub)
Includes(s, sub) ==
  \E i \in 1..(Len(s) - Len(sub) + 1) : SubSeq(s, i, i + Len(sub) - 1) = sub

\* Line 230: file.type.includes('pdf')
IsPdfType(type) == Includes(type, <<"p", "d", "f">>)

\* A file of exactly the limit counted as too large
TooLargeInclusive(f) == f.size >= MAX_FILE_SIZE

\* Line 237: file.size > 50 * 1024 * 1024
TooLarge(f) == f.size > MAX_FILE_SIZE

\* Lines 229-245: validation, up to the first await (file.arrayBuffer())
Validate(r) ==
  /\ run[r].pc = "start"
  /\ run' = [run EXCEPT ![r] =
       IF ~IsPdfType(file[r].type)
       THEN Throw(@, "INVALID_FILE_TYPE", FALSE)
       ELSE IF TooLarge(file[r])
       THEN Throw(@, "FILE_TOO_LARGE", FALSE)
       ELSE [Report(@, "loading") EXCEPT !.pc = "loading", !.loadCalls = @ + 1]]
  /\ UNCHANGED <<file, doc, workers>>
  /\ Others

\* Lines 245-255: file.arrayBuffer() and getDocument() resolve
LoadDocument(r) ==
  /\ run[r].pc = "loading"
  /\ run' = [run EXCEPT ![r] =
       LET l == [Report(@, "extracting") EXCEPT !.totalPages = Len(doc[r])]
       IN  IF l.totalPages >= 1
           THEN [l EXCEPT !.pageNum = 1, !.pc = "getPage"]
           ELSE AfterLoop(l)]
  /\ UNCHANGED <<file, doc, workers>>
  /\ Others

\* Lines 245-246: file.arrayBuffer() or getDocument() rejects
LoadDocumentFails(r) ==
  /\ run[r].pc = "loading"
  /\ run' = [run EXCEPT ![r] = IoThrows(@)]
  /\ UNCHANGED <<file, doc, workers>>
  /\ Others

\* The attempt left unrecorded until the worker is ready
StartOcrInitUnrecorded(l) ==
  [l EXCEPT !.initAttempts = @ + 1, !.pc = "createWorker"]

\* Lines 214-216: initializeOcrWorkerIfNeeded records the attempt and calls
\* createWorker(), in the turn that set hasScannedContent
StartOcrInit(l) ==
  [l EXCEPT !.ocrAttemptedOnDocument = TRUE,
            !.initAttempts = @ + 1,
            !.pc = "createWorker"]

\* Lines 257-285: getPage and getTextContent resolve; a digital page is
\* added, a scanned page starts OCR
GetPageText(r) ==
  /\ run[r].pc = "getPage"
  /\ \E hasContext \in BOOLEAN :
       LET l == run[r]
           pageText == doc[r][l.pageNum]
       IN  run' = [run EXCEPT ![r] =
             IF Len(Trim(pageText)) > MIN_TEXT_LENGTH
             THEN DigitalPage(l, pageText)
             ELSE LET s == [l EXCEPT !.hasScannedContent = TRUE]
                  IN  IF l.revision = LibRevision
                      THEN CatchUnexpected(s)
                      ELSE IF NeedsOcrInit(s)
                      THEN StartOcrInit(s)
                      ELSE AfterOcrInit(s, hasContext)]
  /\ UNCHANGED <<file, doc, workers>>
  /\ Others

\* Lines 257-258: getPage or getTextContent rejects
GetPageFails(r) ==
  /\ run[r].pc = "getPage"
  /\ run' = [run EXCEPT ![r] = IoThrows(@)]
  /\ UNCHANGED <<file, doc, workers>>
  /\ Others

\* Line 216: createWorker() resolves with a new worker
CreateWorker(r) ==
  /\ run[r].pc = "createWorker"
  /\ workers' = Append(workers, NewWorker(r))
  /\ run' = [run EXCEPT ![r].ocrWorker = Len(workers) + 1, ![r].pc = "load"]
  /\ UNCHANGED <<file, doc>>
  /\ Others

\* Lines 217-219: load, loadLanguage, initialize resolve in turn
InitStepOk(r) ==
  /\ run[r].pc \in {"load", "loadLanguage", "initialize"}
  /\ \E hasContext \in BOOLEAN :
       run' = [run EXCEPT ![r] =
         IF @.pc = "load" THEN [@ EXCEPT !.pc = "loadLanguage"]
         ELSE IF @.pc = "loadLanguage" THEN [@ EXCEPT !.pc = "initialize"]
         ELSE AfterOcrInit(@, hasContext)]
  /\ UNCHANGED <<file, doc, workers>>
  /\ Others

\* Lines 216-224: createWorker, load, loadLanguage or initialize rejects
InitStepFails(r) ==
  /\ run[r].pc \in {"createWorker", "load", "loadLanguage", "initialize"}
  /\ \E hasContext \in BOOLEAN :
       run' = [run EXCEPT ![r] = AfterOcrInit(RecordInitFailure(@), hasContext)]
  /\ UNCHANGED <<file, doc, workers>>
  /\ Others

\* Line 298: page.render resolves
RenderPage(r) ==
  /\ run[r].pc = "render"
  /\ run' = [run EXCEPT ![r].pc = "recognize"]
  /\ UNCHANGED <<file, doc, workers>>
  /\ Others

\* Line 298: page.render rejects
RenderFails(r) ==
  /\ run[r].pc = "render"
  /\ run' = [run EXCEPT ![r] = IoThrows(@)]
  /\ UNCHANGED <<file, doc, workers>>
  /\ Others

\* Lines 187-194: what processPageWithOCR returns: the text and the
\* confidence recognised, or an empty text of confidence 0 when
\* worker.recognize rejected
OcrResult(rejected, text, confidence) ==
  IF rejected THEN [text |-> <<>>, confidence |-> 0]
  ELSE [text |-> text, confidence |-> confidence]

\* Lines 156-195, 299-314: worker.recognize settles
Recognize(r) ==
  /\ run[r].pc = "recognize"
  /\ \E o \in OcrOutcomes, rejected \in BOOLEAN :
       LET w == RecognitionWorker(r)
           ocrResult == OcrResult(rejected, o.text, o.confidence)
           l == [run[r] EXCEPT
                   !.recognizeCalls = @ + 1,
                   !.recognizedWith = @ \cup {w},
                   !.recognitions = Append(@, [page |-> run[r].pageNum,
                                               text |-> ocrResult.text,
                                               confidence |-> ocrResult.confidence])]
       IN  /\ run' = [run EXCEPT ![r] =
                       NextPage(OcrPage(l, ocrResult.text, ocrResult.confidence))]
           /\ workers' = [workers EXCEPT ![w].recognizedBy = @ \cup {r}]
  /\ UNCHANGED <<file, doc>>
  /\ Others

\* Lines 384-387: the finally block calls terminate on the worker
Finally(r) ==
  /\ run[r].pc = "finally"
  /\ NeedsTerminate(run[r])
  /\ LET w == run[r].ocrWorker
     IN  workers' = [workers EXCEPT ![w].terminatedBy = @ \cup {r},
                                    ![w].terminateCalls = @ + 1]
  /\ run' = [run EXCEPT ![r].terminateCalls = @ + 1, ![r].pc = "terminating"]
  /\ UNCHANGED <<file, doc>>
  /\ Others

\* A rejected terminate thrown out of the finally block
SettledOutcomeEscalates(l, terminateThrew) ==
  IF terminateThrew
  THEN [NoOutcome EXCEPT !.kind = "error", !.code = "PROCESSING_FAILED",
                         !.recoverable = TRUE]
  ELSE l.outcome

\* Lines 384-392: the finally block completes normally whether or not
\* terminate rejected, so the promise settles with the result returned or
\* the error thrown by the try and catch blocks
SettledOutcome(l, terminateThrew) == l.outcome

\* Lines 384-392: no worker to terminate, the returned promise settles
SettleNoWorker(r) ==
  /\ run[r].pc = "finally"
  /\ ~NeedsTerminate(run[r])
  /\ run' = [run EXCEPT ![r].pc = "done",
                        ![r].settled = SettledOutcome(run[r], FALSE)]
  /\ UNCHANGED <<file, doc, workers>>
  /\ Others

\* Lines 387-390: terminate resolves, or rejects and is logged; the
\* returned promise settles
TerminateSettles(r) ==
  /\ run[r].pc = "terminating"
  /\ \E rejected \in BOOLEAN :
       run' = [run EXCEPT ![r].pc = "done",
                          ![r].terminateThrew = rejected,
                          ![r].settled = SettledOutcome(run[r], rejected)]
  /\ UNCHANGED <<file, doc, workers>>
  /\ Others

Step(r) ==
  \/ Validate(r)
  \/ LoadDocument(r)
  \/ LoadDocumentFails(r)
  \/ GetPageText(r)
  \/ GetPageFails(r)
  \/ CreateWorker(r)
  \/ InitStepOk(r)
  \/ InitStepFails(r)
  \/ RenderPage(r)
  \/ RenderFails(r)
  \/ Recognize(r)
  \/ Finally(r)
  \/ SettleNoWorker(r)
  \/ TerminateSettles(r)

Files == [type : FileTypes, size : FileSizes]

Accepted(f) == IsPdfType(f.type) /\ ~TooLarge(f)

SmallPdf == [type |-> ApplicationPdf, size |-> 1024]

\* A rejected file is never opened: Init leaves its pages out of the state.
\* Documents of several pages come in the file SmallPdf.
CkIdle ==
  /\ ckText = <<>> /\ ckMap = <<>> /\ ckMax = DEFAULT_MAX_TOKENS
  /\ ckPc = "off" /\ ckOut = NoOut

PipeIdle ==
  /\ file = [r \in RunIds |-> SmallPdf]
  /\ doc = [r \in RunIds |-> <<>>]
  /\ run = [r \in RunIds |-> NotStarted]
  /\ workers = <<>>

\* ------------------------------------------------------------------------
\* OcrService
\* ------------------------------------------------------------------------
CallerIds == {"c1", "c2"}

NoPromise == 0

\* The fields of the service (lines 8-10)
NewService ==
  [worker |-> NoWorker, initializationError |-> Null,
   initializationPromise |-> NoPromise]

\* A caller of the service: what it awaits, what its last awaited
\* initializeWorker settled with, the calls it has made and the worker whose
\* terminate() it awaits (target).  rowTerminates
\* counts (up to 2) the terminateWorker calls it has completed since its last
\* initializeWorker call, rowUnderlying the worker.terminate() calls they
\* made, rowRejected whether the first of them saw terminate reject and
\* svcAfterFirst the service as the first of them left it.
NewCaller ==
  [pc |-> "idle", promise |-> NoPromise, observed |-> "none",
   initCalls |-> 0, terminateCalls |-> 0,
   rowTerminates |-> 0, rowUnderlying |-> 0, rowRejected |-> FALSE,
   svcAfterFirst |-> NewService, target |-> NoWorker]

\* The caller's record of its terminateWorker calls in a row is cleared by
\* its next initializeWorker call
ClearRow(cr) ==
  [cr EXCEPT !.rowTerminates = 0, !.rowUnderlying = 0, !.rowRejected = FALSE,
             !.svcAfterFirst = NewService]

\* A terminateWorker call of the caller has completed, leaving the service
\* as s: the first call of a row records s and whether terminate rejected
CompleteTerminate(cr, s, rejected) ==
  [cr EXCEPT !.pc = "idle",
             !.rowTerminates = IF @ < 2 THEN @ + 1 ELSE @,
             !.rowRejected = IF cr.rowTerminates = 0 THEN rejected ELSE @,
             !.svcAfterFirst = IF cr.rowTerminates = 0 THEN s ELSE @]

CallsMade(c) == callers[c].initCalls + callers[c].terminateCalls

\* The new promise is not stored while its executor runs
PublishPromiseLate(s, p) == s

\* Line 30: the new promise is stored before the executor's first await
PublishPromise(s, p) == [s EXCEPT !.initializationPromise = p]

\* Lines 25-43: initializeWorker up to its first await.  A cached promise
\* is returned; otherwise a promise is created and stored, and its executor
\* runs up to the call of Tesseract.createWorker.
CallInitialize(c) ==
  /\ callers[c].pc = "idle"
  /\ CallsMade(c) < MaxCalls
  /\ IF svc.initializationPromise # NoPromise
     THEN /\ callers' = [callers EXCEPT ![c] =
                         [ClearRow(@) EXCEPT !.pc = "awaitInit",
                                             !.promise = svc.initializationPromise,
                                             !.initCalls = @ + 1]]
          /\ UNCHANGED <<svc, promises>>
     ELSE /\ Len(promises) < MaxPromises
          /\ promises' = Append(promises, [state |-> "pending", step |-> "createWorker"])
          /\ svc' = PublishPromise(svc, Len(promises) + 1)
          /\ callers' = [callers EXCEPT ![c] =
                         [ClearRow(@) EXCEPT !.pc = "awaitInit",
                                             !.promise = Len(promises) + 1,
                                             !.initCalls = @ + 1]]
  /\ UNCHANGED svcWorkers
  /\ UNCHANGED <<ckVars, hdVars, pipeVars, upVars, apiVars, genVars>>

\* Line 32: createWorker resolves and the worker is stored
ExecCreateWorker(p) ==
  /\ p \in 1..Len(promises)
  /\ promises[p].step = "createWorker"
  /\ svcWorkers' = Append(svcWorkers, [promise |-> p, terminateCalls |-> 0,
                                       terminated |-> FALSE])
  /\ svc' = [svc EXCEPT !.worker = Len(svcWorkers) + 1]
  /\ promises' = [promises EXCEPT ![p].step = "load"]
  /\ UNCHANGED callers
  /\ UNCHANGED <<ckVars, hdVars, pipeVars, upVars, apiVars, genVars>>

\* Lines 33-36: load, loadLanguage, initialize resolve in turn, then resolve()
ExecStepOk(p) ==
  /\ p \in 1..Len(promises)
  /\ promises[p].step \in {"load", "loadLanguage", "initialize"}
  /\ promises' = [promises EXCEPT ![p] =
       IF @.step = "load" THEN [@ EXCEPT !.step = "loadLanguage"]
       ELSE IF @.step = "loadLanguage" THEN [@ EXCEPT !.step = "initialize"]
       ELSE [state |-> "resolved", step |-> "settled"]]
  /\ UNCHANGED <<svc, svcWorkers, callers>>
  /\ UNCHANGED <<ckVars, hdVars, pipeVars, upVars, apiVars, genVars>>

\* Lines 37-40: a step rejects; the error is recorded and the promise rejected
ExecStepFails(p) ==
  /\ p \in 1..Len(promises)
  /\ promises[p].step \in {"createWorker", "load", "loadLanguage", "initialize"}
  /\ svc' = [svc EXCEPT !.initializationError = OcrInitMessage]
  /\ promises' = [promises EXCEPT ![p] = [state |-> "rejected", step |-> "settled"]]
  /\ UNCHANGED <<svcWorkers, callers>>
  /\ UNCHANGED <<ckVars, hdVars, pipeVars, upVars, apiVars, genVars>>

\* The promise a caller awaits has settled: the caller's await completes
ObserveInit(c) ==
  /\ callers[c].pc = "awaitInit"
  /\ promises[callers[c].promise].state # "pending"
  /\ callers' = [callers EXCEPT ![c].pc = "idle",
                                ![c].observed = promises[callers[c].promise].state]
  /\ UNCHANGED <<svc, promises, svcWorkers>>
  /\ UNCHANGED <<ckVars, hdVars, pipeVars, upVars, apiVars, genVars>>

\* Lines 101-104: terminateWorker with a worker, up to the await
CallTerminate(c) ==
  /\ callers[c].pc = "idle"
  /\ CallsMade(c) < MaxCalls
  /\ svc.worker # NoWorker
  /\ svcWorkers' = [svcWorkers EXCEPT ![svc.worker].terminateCalls = @ + 1]
  /\ callers' = [callers EXCEPT ![c].pc = "awaitTerminate",
                                ![c].terminateCalls = @ + 1,
                                ![c].rowUnderlying = @ + 1,
                                ![c].target = svc.worker]
  /\ UNCHANGED <<svc, promises>>
  /\ UNCHANGED <<ckVars, hdVars, pipeVars, upVars, apiVars, genVars>>

\* Lines 101-111: terminateWorker without a worker
CallTerminateNoWorker(c) ==
  /\ callers[c].pc = "idle"
  /\ CallsMade(c) < MaxCalls
  /\ svc.worker = NoWorker
  /\ svc' = [svc EXCEPT !.initializationPromise = NoPromise]
  /\ callers' = [callers EXCEPT ![c] =
                   CompleteTerminate([@ EXCEPT !.terminateCalls = @ + 1],
                                     svc', FALSE)]
  /\ UNCHANGED <<promises, svcWorkers>>
  /\ UNCHANGED <<ckVars, hdVars, pipeVars, upVars, apiVars, genVars>>

\* The worker kept although terminate resolved
AfterTerminateKeepsWorker(s, rejected) ==
  [s EXCEPT !.initializationPromise = NoPromise]

\* Lines 104-110: the fields after worker.terminate() has settled: the
\* worker is dropped only when terminate resolved
AfterTerminate(s, rejected) ==
  IF rejected
  THEN [s EXCEPT !.initializationPromise = NoPromise]
  ELSE [s EXCEPT !.worker = NoWorker, !.initializationPromise = NoPromise]

\* Lines 104-105, 110: terminate resolves
TerminateResolves(c) ==
  /\ callers[c].pc = "awaitTerminate"
  /\ svc' = AfterTerminate(svc, FALSE)
  /\ svcWorkers' = [svcWorkers EXCEPT ![callers[c].target].terminated = TRUE]
  /\ callers' = [callers EXCEPT ![c] =
                   [CompleteTerminate(@, svc', FALSE) EXCEPT !.target = NoWorker]]
  /\ UNCHANGED promises
  /\ UNCHANGED <<ckVars, hdVars, pipeVars, upVars, apiVars, genVars>>

\* Lines 106-110: terminate rejects and is logged
TerminateRejects(c) ==
  /\ callers[c].pc = "awaitTerminate"
  /\ svc' = AfterTerminate(svc, TRUE)
  /\ callers' = [callers EXCEPT ![c] =
                   [CompleteTerminate(@, svc', TRUE) EXCEPT !.target = NoWorker]]
  /\ UNCHANGED <<promises, svcWorkers>>
  /\ UNCHANGED <<ckVars, hdVars, pipeVars, upVars, apiVars, genVars>>

SvcIdle ==
  /\ svc = NewService
  /\ promises = <<>>
  /\ svcWorkers = <<>>
  /\ callers = [c \in CallerIds |-> [NewCaller EXCEPT !.pc = "off"]]

SvcInit ==
  /\ svc = NewService
  /\ promises = <<>>
  /\ svcWorkers = <<>>
  /\ callers = [c \in CallerIds |-> NewCaller]

\* ------------------------------------------------------------------------
\* EnhancedPDFUploader: file selection, drop, processing and retries
\* ------------------------------------------------------------------------
RETRY_LIMIT == 3

NoFile == "none"
UploadFiles == {"f1", "f2"}

NoError == [code |-> "none", recoverable |-> FALSE]
RetryNoFile == [code |-> "RETRY_NO_FILE", recoverable |-> FALSE]

\* What a processEnhancedPDF run started by the component settles with
RunErrors ==
  { [code |-> "PROCESSING_FAILED", recoverable |-> TRUE],
    [code |-> "NO_TEXT_EXTRACTED", recoverable |-> FALSE] }

\* Component state after the first render. runs are the processEnhancedPDF
\* calls in flight, timers the pending setTimeout callbacks in the order
\* they were scheduled; retries, handled and uploads record the history:
\* the retries scheduled since the last successful upload, the calls of
\* handleFile and the successful uploads.  errorFile is the file whose run
\* produced the error shown, seen the files handed to handleFile so far.
NewUploader ==
  [ isProcessing |-> FALSE, error |-> NoError, errorFile |-> NoFile,
    retryCount |-> 0,
    inputFile |-> NoFile, runs |-> <<>>, timers |-> <<>>,
    retries |-> <<>>, handled |-> 0, uploads |-> 0, seen |-> {} ]

UpIdle == up = NewUploader

\* Which branch the component renders
View(u) ==
  IF u.error # NoError /\ ~u.error.recoverable THEN "failed"
  ELSE IF u.isProcessing THEN "processing"
  ELSE IF u.error # NoError /\ u.error.recoverable THEN "error"
  ELSE "upload"

\* The file input exists only in the upload branch
InputRendered(u) == View(u) = "upload"

\* A render that leaves the upload branch unmounts the input with its file
Render(u) == IF InputRendered(u) THEN u ELSE [u EXCEPT !.inputFile = NoFile]

\* fileInputRef.current?.files[0]
RefFile(u) == IF InputRendered(u) THEN u.inputFile ELSE NoFile

resetFileInput(u) == [u EXCEPT !.inputFile = NoFile]

RemoveAt(seq, i) == SubSeq(seq, 1, i - 1) \o SubSeq(seq, i + 1, Len(seq))

\* handleFile up to its await
handleFile(u, f, via) ==
  [u EXCEPT !.error = NoError,
            !.errorFile = NoFile,
            !.isProcessing = TRUE,
            !.runs = Append(@, [file |-> f, via |-> via]),
            !.handled = @ + 1,
            !.seen = @ \cup {f}]

\* The delay computed from the count after its increment
RetryDelayAfterIncrement(retryCount) == 2 ^ (retryCount + 1) * 1000

\* Math.pow(2, retryCount) * 1000, in ms
RetryDelay(retryCount) == 2 ^ retryCount * 1000

handleRetry(u) ==
  IF u.error # NoError /\ u.error.recoverable /\ u.retryCount < RETRY_LIMIT
  THEN LET delay == RetryDelay(u.retryCount) IN
       [u EXCEPT !.retryCount = @ + 1,
                 !.timers = Append(@, [delay |-> delay]),
                 !.retries = Append(@, [delay |-> delay, error |-> u.error])]
  ELSE u

UpOthers == UNCHANGED <<ckVars, hdVars, pipeVars, svcVars, apiVars, genVars>>

\* The user picks a file in the dialog of the input
ChooseFile(f) ==
  /\ InputRendered(up)
  /\ up.handled < MaxHandled
  /\ up' = Render(handleFile([up EXCEPT !.inputFile = f], f, "input"))
  /\ UpOthers

\* The user drops a file on the drop zone
DropFile(f) ==
  /\ View(up) # "failed"
  /\ up.handled < MaxHandled
  /\ up' = Render(handleFile(up, f, "drop"))
  /\ UpOthers

\* The rest of handleFile once processEnhancedPDF has settled
SettleRun(i) ==
  /\ i \in 1..Len(up.runs)
  /\ \E o \in {NoError} \cup RunErrors :
       LET settled ==
             IF o = NoError
             THEN resetFileInput([up EXCEPT !.retryCount = 0,
                                            !.retries = <<>>,
                                            !.uploads = @ + 1])
             ELSE [up EXCEPT !.error = o, !.errorFile = up.runs[i].file]
       IN  up' = Render([settled EXCEPT !.isProcessing = FALSE,
                                        !.runs = RemoveAt(@, i)])
  /\ UpOthers

\* The Retry button, enabled while retryCount < 3
ClickRetry ==
  /\ View(up) = "error"
  /\ up.retryCount < RETRY_LIMIT
  /\ Len(up.timers) < MaxTimers
  /\ up' = Render(handleRetry(up))
  /\ UpOthers

\* A timer fires no later than the timers scheduled after it with a delay
\* at least as long
CanFire(u, i) == \A j \in 1..(i - 1) : u.timers[j].delay > u.timers[i].delay

\* The callback handleRetry passed to setTimeout
TimerFires(i) ==
  /\ i \in 1..Len(up.timers)
  /\ CanFire(up, i)
  /\ LET u == [up EXCEPT !.timers = RemoveAt(@, i)] IN
     up' = IF RefFile(up) # NoFile
           THEN Render(handleFile(u, RefFile(up), "retry"))
           ELSE Render([u EXCEPT !.error = RetryNoFile, !.errorFile = NoFile])
  /\ UpOthers

ClickTryDifferentFile ==
  /\ View(up) = "error"
  /\ up' = Render(resetFileInput([up EXCEPT !.error = NoError,
                                            !.errorFile = NoFile]))
  /\ UpOthers

ClickTryAnotherFile ==
  /\ View(up) = "failed"
  /\ up' = Render(resetFileInput([up EXCEPT !.error = NoError,
                                            !.errorFile = NoFile]))
  /\ UpOthers

\* ------------------------------------------------------------------------
\* callGeminiApi: one call of the generation service with its retries
\* ------------------------------------------------------------------------
MAX_RETRIES == 2
INITIAL_RETRY_DELAY_MS == 1000

PLACEHOLDER_KEY ==
  <<"Y", "O", "U", "R", "_", "G", "E", "M", "I", "N", "I", "_",
    "A", "P", "I", "_", "K", "E", "Y", "_", "H", "E", "R", "E">>

ApiKeys == { <<>>, <<SP>>, PLACEHOLDER_KEY, <<"k">> }

\* Line 332
KeyRejected(apiKey) ==
  apiKey = <<>> \/ apiKey = PLACEHOLDER_KEY \/ Trim(apiKey) = <<>>

StartsWith(s, prefix) ==
  Len(s) >= Len(prefix) /\ SubSeq(s, 1, Len(prefix)) = prefix

DecimalDigit(d) == <<"0", "1", "2", "3", "4", "5", "6", "7", "8", "9">>[d + 1]

RECURSIVE ToDecimal(_)
ToDecimal(n) ==
  IF n < 10 THEN <<DecimalDigit(n)>>
  ELSE ToDecimal(n \div 10) \o <<DecimalDigit(n % 10)>>

\* Messages of the errors thrown
MsgKeyRequired ==
  <<"A", " ", "v", "a", "l", "i", "d", " ", "G", "e", "m", "i",
    "n", "i", " ", "A", "P", "I", " ", "k", "e", "y", " ", "i",
    "s", " ", "r", "e", "q", "u", "i", "r", "e", "d", ".", " ",
    "P", "l", "e", "a", "s", "e", " ", "p", "r", "o", "v", "i",
    "d", "e", " ", "o", "n", "e", ".">>
MsgInvalidKey ==
  <<"T", "h", "e", " ", "p", "r", "o", "v", "i", "d", "e", "d",
    " ", "A", "P", "I", " ", "k", "e", "y", " ", "i", "s", " ",
    "n", "o", "t", " ", "v", "a", "l", "i", "d", ".", " ", "P",
    "l", "e", "a", "s", "e", " ", "c", "h", "e", "c", "k", " ",
    "y", "o", "u", "r", " ", "A", "P", "I", " ", "k", "e", "y",
    " ", "a", "n", "d", " ", "t", "r", "y", " ", "a", "g", "a",
    "i", "n", ".">>
MsgBilling ==
  <<"T", "h", "e", "r", "e", " ", "m", "i", "g", "h", "t", " ",
    "b", "e", " ", "a", "n", " ", "i", "s", "s", "u", "e", " ",
    "w", "i", "t", "h", " ", "b", "i", "l", "l", "i", "n", "g",
    " ", "f", "o", "r", " ", "y", "o", "u", "r", " ", "A", "P",
    "I", " ", "k", "e", "y", " ", "o", "r", " ", "t", "h", "e",
    " ", "f", "r", "e", "e", " ", "t", "i", "e", "r", " ", "i",
    "s", " ", "n", "o", "t", " ", "a", "v", "a", "i", "l", "a",
    "b", "l", "e", " ", "i", "n", " ", "y", "o", "u", "r", " ",
    "r", "e", "g", "i", "o", "n", ".", " ", "P", "l", "e", "a",
    "s", "e", " ", "c", "h", "e", "c", "k", " ", "y", "o", "u",
    "r", " ", "G", "o", "o", "g", "l", "e", " ", "A", "I", " ",
    "S", "t", "u", "d", "i", "o", " ", "p", "r", "o", "j", "e",
    "c", "t", " ", "s", "e", "t", "t", "i", "n", "g", "s", ".">>
MsgForbidden ==
  <<"T", "h", "e", " ", "A", "P", "I", " ", "k", "e", "y", " ",
    "d", "o", "e", "s", " ", "n", "o", "t", " ", "h", "a", "v",
    "e", " ", "t", "h", "e", " ", "r", "e", "q", "u", "i", "r",
    "e", "d", " ", "p", "e", "r", "m", "i", "s", "s", "i", "o",
    "n", "s", ",", " ", "o", "r", " ", "i", "s", " ", "i", "n",
    "c", "o", "r", "r", "e", "c", "t", " ", "(", "E", "r", "r",
    "o", "r", " ", "4", "0", "3", ")", ".", " ", "P", "l", "e",
    "a", "s", "e", " ", "c", "h", "e", "c", "k", " ", "y", "o",
    "u", "r", " ", "A", "P", "I", " ", "k", "e", "y", ".">>
MsgRateLimited ==
  <<"T", "h", "e", " ", "A", "I", " ", "s", "e", "r", "v", "i",
    "c", "e", " ", "i", "s", " ", "c", "u", "r", "r", "e", "n",
    "t", "l", "y", " ", "b", "u", "s", "y", " ", "o", "r", " ",
    "r", "a", "t", "e", " ", "l", "i", "m", "i", "t", "s", " ",
    "h", "a", "v", "e", " ", "b", "e", "e", "n", " ", "e", "x",
    "c", "e", "e", "d", "e", "d", " ", "(", "E", "r", "r", "o",
    "r", " ", "4", "2", "9", ")", ".", " ", "P", "l", "e", "a",
    "s", "e", " ", "t", "r", "y", " ", "a", "g", "a", "i", "n",
    " ", "i", "n", " ", "a", " ", "f", "e", "w", " ", "m", "o",
    "m", "e", "n", "t", "s", ".">>
MsgEmptyResponse ==
  <<"T", "h", "e", " ", "A", "I", " ", "s", "e", "r", "v", "i",
    "c", "e", " ", "r", "e", "t", "u", "r", "n", "e", "d", " ",
    "a", "n", " ", "e", "m", "p", "t", "y", " ", "o", "r", " ",
    "u", "n", "e", "x", "p", "e", "c", "t", "e", "d", " ", "r",
    "e", "s", "p", "o", "n", "s", "e", ".", " ", "P", "l", "e",
    "a", "s", "e", " ", "t", "r", "y", " ", "a", "g", "a", "i",
    "n", ".">>
MsgImproperResponse ==
  <<"T", "h", "e", " ", "A", "I", " ", "s", "e", "r", "v", "i",
    "c", "e", " ", "r", "e", "t", "u", "r", "n", "e", "d", " ",
    "a", "n", " ", "i", "m", "p", "r", "o", "p", "e", "r", "l",
    "y", " ", "f", "o", "r", "m", "a", "t", "t", "e", "d", " ",
    "r", "e", "s", "p", "o", "n", "s", "e", ".", " ", "P", "l",
    "e", "a", "s", "e", " ", "t", "r", "y", " ", "a", "g", "a",
    "i", "n", ".">>
MsgBadRequest(detail) ==
  <<"T", "h", "e", "r", "e", " ", "w", "a", "s", " ", "a", "n",
    " ", "i", "s", "s", "u", "e", " ", "w", "i", "t", "h", " ",
    "t", "h", "e", " ", "r", "e", "q", "u", "e", "s", "t", " ",
    "s", "e", "n", "t", " ", "t", "o", " ", "t", "h", "e", " ",
    "A", "I", " ", "s", "e", "r", "v", "i", "c", "e", " ", "(",
    "E", "r", "r", "o", "r", " ", "4", "0", "0", ")", ".", " ",
    "D", "e", "t", "a", "i", "l", "s", ":", " ">>
  \o detail
MsgServerIssue(status) ==
  <<"T", "h", "e", " ", "A", "I", " ", "s", "e", "r", "v", "i",
    "c", "e", " ", "e", "n", "c", "o", "u", "n", "t", "e", "r",
    "e", "d", " ", "a", " ", "t", "e", "m", "p", "o", "r", "a",
    "r", "y", " ", "i", "s", "s", "u", "e", " ", "(", "E", "r",
    "r", "o", "r", " ">>
  \o ToDecimal(status) \o
  <<")", ".", " ", "P", "l", "e", "a", "s", "e", " ", "t", "r",
    "y", " ", "a", "g", "a", "i", "n", " ", "s", "h", "o", "r",
    "t", "l", "y", ".">>
MsgApiError(status, detail) ==
  <<"A", "P", "I", " ", "E", "r", "r", "o", "r", " ", "(">> \o ToDecimal(status) \o
  <<")", ":", " ">> \o detail
MsgBlocked(reason) ==
  <<"Y", "o", "u", "r", " ", "r", "e", "q", "u", "e", "s", "t",
    " ", "w", "a", "s", " ", "b", "l", "o", "c", "k", "e", "d",
    " ", "b", "y", " ", "t", "h", "e", " ", "A", "I", "'", "s",
    " ", "s", "a", "f", "e", "t", "y", " ", "f", "i", "l", "t",
    "e", "r", "s", " ", "(", "R", "e", "a", "s", "o", "n", ":", " ">>
  \o reason \o
  <<")", ".", " ", "P", "l", "e", "a", "s", "e", " ", "r", "e",
    "v", "i", "s", "e", " ", "y", "o", "u", "r", " ", "i", "n",
    "p", "u", "t", ".">>
MsgNotGenerated(reason) ==
  <<"T", "h", "e", " ", "A", "I", " ", "c", "o", "u", "l", "d",
    "n", "'", "t", " ", "g", "e", "n", "e", "r", "a", "t", "e",
    " ", "a", " ", "r", "e", "s", "p", "o", "n", "s", "e", " ",
    "(", "R", "e", "a", "s", "o", "n", ":", " ">>
  \o reason \o
  <<")", ".", " ", "T", "h", "i", "s", " ", "m", "i", "g", "h",
    "t", " ", "b", "e", " ", "d", "u", "e", " ", "t", "o", " ",
    "s", "a", "f", "e", "t", "y", " ", "f", "i", "l", "t", "e",
    "r", "s", " ", "o", "r", " ", "o", "t", "h", "e", "r", " ",
    "l", "i", "m", "i", "t", "a", "t", "i", "o", "n", "s", ".",
    " ", "P", "l", "e", "a", "s", "e", " ", "t", "r", "y", " ",
    "m", "o", "d", "i", "f", "y", "i", "n", "g", " ", "y", "o",
    "u", "r", " ", "r", "e", "q", "u", "e", "s", "t", ".">>
MsgFailedToConnect(cause) ==
  <<"F", "a", "i", "l", "e", "d", " ", "t", "o", " ", "c", "o",
    "n", "n", "e", "c", "t", " ", "t", "o", " ", "t", "h", "e",
    " ", "A", "I", " ", "s", "e", "r", "v", "i", "c", "e", ".",
    " ", "P", "l", "e", "a", "s", "e", " ", "c", "h", "e", "c",
    "k", " ", "y", "o", "u", "r", " ", "i", "n", "t", "e", "r",
    "n", "e", "t", " ", "c", "o", "n", "n", "e", "c", "t", "i",
    "o", "n", " ", "a", "n", "d", " ", "t", "r", "y", " ", "a",
    "g", "a", "i", "n", ".", " ", "(">>
  \o cause \o <<")">>

\* Fallbacks for a missing detail
InvalidRequest ==
  <<"I", "n", "v", "a", "l", "i", "d", " ", "r", "e", "q", "u",
    "e", "s", "t", ".">>
UnknownError ==
  <<"A", "n", " ", "u", "n", "k", "n", "o", "w", "n", " ", "e",
    "r", "r", "o", "r", " ", "o", "c", "c", "u", "r", "r", "e",
    "d", " ", "w", "i", "t", "h", " ", "t", "h", "e", " ", "A",
    "I", " ", "s", "e", "r", "v", "i", "c", "e", ".">>

\* Messages of errors raised by fetch and by the reading of a body
FailedToFetch ==
  <<"F", "a", "i", "l", "e", "d", " ", "t", "o", " ", "f", "e",
    "t", "c", "h">>
UnexpectedToken ==
  <<"U", "n", "e", "x", "p", "e", "c", "t", "e", "d", " ", "t",
    "o", "k", "e", "n", " ", "<", " ", "i", "n", " ", "J", "S",
    "O", "N", " ", "a", "t", " ", "p", "o", "s", "i", "t", "i",
    "o", "n", " ", "0">>
CannotReadParts ==
  <<"C", "a", "n", "n", "o", "t", " ", "r", "e", "a", "d", " ",
    "p", "r", "o", "p", "e", "r", "t", "i", "e", "s", " ", "o",
    "f", " ", "u", "n", "d", "e", "f", "i", "n", "e", "d", " ",
    "(", "r", "e", "a", "d", "i", "n", "g", " ", "'", "0", "'", ")">>

\* Texts the service sends
KeyNotValidDetail ==
  <<"A", "P", "I", " ", "k", "e", "y", " ", "n", "o", "t", " ",
    "v", "a", "l", "i", "d", ".", " ", "P", "l", "e", "a", "s",
    "e", " ", "p", "a", "s", "s", " ", "a", " ", "v", "a", "l",
    "i", "d", " ", "A", "P", "I", " ", "k", "e", "y", ".">>
BillingDetail ==
  <<"E", "n", "a", "b", "l", "e", " ", "b", "i", "l", "l", "i",
    "n", "g", " ", "o", "n", " ", "t", "h", "e", " ", "p", "r",
    "o", "j", "e", "c", "t", ".">>
ServiceUnavailable ==
  <<"S", "e", "r", "v", "i", "c", "e", " ", "U", "n", "a", "v",
    "a", "i", "l", "a", "b", "l", "e">>
SAFETY ==
  <<"S", "A", "F", "E", "T", "Y">>
STOP ==
  <<"S", "T", "O", "P">>
GeneratedText ==
  <<"Q", "1">>

\* A missing property reads like the empty string, and missing candidates
\* like an empty list, wherever the code tests them
Absent == <<>>

\* What fetch settles with. json is what response.json() gives: it throws
\* (parses is FALSE), or yields the body's error.message,
\* promptFeedback.blockReason and candidates (Absent, or candidates with a
\* content that is missing, has no parts or has parts, the text at
\* content.parts[0].text and the finishReason)
JsonThrows ==
  [parses |-> FALSE, errorMessage |-> Absent, blockReason |-> Absent,
   candidates |-> Absent]
ErrorBody(message) ==
  [parses |-> TRUE, errorMessage |-> message, blockReason |-> Absent,
   candidates |-> Absent]
OkBody(blockReason, candidates) ==
  [parses |-> TRUE, errorMessage |-> Absent, blockReason |-> blockReason,
   candidates |-> candidates]
Candidate(content, text, finishReason) ==
  [content |-> content, text |-> text, finishReason |-> finishReason]
Response(status, json) ==
  [rejects |-> FALSE, status |-> status, statusText |-> ServiceUnavailable,
   json |-> json]
NetworkFailure ==
  [rejects |-> TRUE, status |-> 0, statusText |-> Absent, json |-> JsonThrows]

ErrorResponses ==
  { Response(400, ErrorBody(KeyNotValidDetail)),
    Response(400, ErrorBody(BillingDetail)),
    Response(400, ErrorBody(Absent)),
    Response(403, ErrorBody(Absent)),
    Response(404, ErrorBody(Absent)),
    Response(429, ErrorBody(Absent)),
    Response(500, ErrorBody(Absent)),
    Response(503, JsonThrows) }

OkResponses ==
  { Response(200, JsonThrows),
    Response(200, OkBody(SAFETY, Absent)),
    Response(200, OkBody(Absent, Absent)),
    Response(200, OkBody(Absent, <<Candidate("missing", Absent, SAFETY)>>)),
    Response(200, OkBody(Absent, <<Candidate("parts", Absent, STOP)>>)),
    Response(200, OkBody(Absent, <<Candidate("missing", Absent, Absent)>>)),
    Response(200, OkBody(Absent, <<Candidate("noParts", Absent, STOP)>>)),
    Response(200, OkBody(Absent, <<Candidate("parts", GeneratedText, STOP)>>)) }

Responses == {NetworkFailure} \cup ErrorResponses \cup OkResponses

ResponseOk(r) == r.status \in 200..299

\* Lines 357-363
ErrorMessageOf(r) ==
  IF r.json.parses THEN r.json.errorMessage ELSE r.statusText

OrElse(value, fallback) == IF value = Absent THEN fallback ELSE value

\* Any failed response retried while attempts are left
ShouldRetryAnyStatus(status, attempt) == attempt <= MAX_RETRIES

\* Line 368
ShouldRetry(status, attempt) ==
  (status = 429 \/ status >= 500) /\ attempt <= MAX_RETRIES

\* Line 369
BackoffDelay(attempt) == INITIAL_RETRY_DELAY_MS * 2 ^ (attempt - 1)

\* Lines 376-390
UserMessage(r) ==
  LET detail == ErrorMessageOf(r) IN
  IF r.status = 400 THEN
    IF Includes(detail, <<"A", "P", "I", " ", "k", "e", "y", " ", "n", "o", "t", " ",
                          "v", "a", "l", "i", "d">>) THEN MsgInvalidKey
    ELSE IF Includes(detail, <<"b", "i", "l", "l", "i", "n", "g">>) THEN MsgBilling
    ELSE MsgBadRequest(OrElse(detail, InvalidRequest))
  ELSE IF r.status = 403 THEN MsgForbidden
  ELSE IF r.status = 429 THEN MsgRateLimited
  ELSE IF r.status >= 500 THEN MsgServerIssue(r.status)
  ELSE MsgApiError(r.status, OrElse(detail, UnknownError))

\* Lines 394-419: the message thrown for the body of a successful
\* response, or Absent when the text is returned
ThrownForBody(r) ==
  IF ~r.json.parses THEN UnexpectedToken
  ELSE IF r.json.blockReason # Absent THEN MsgBlocked(r.json.blockReason)
  ELSE IF r.json.candidates = Absent THEN MsgEmptyResponse
  ELSE LET first == r.json.candidates[1] IN
       IF first.content = "noParts" THEN CannotReadParts
       ELSE IF first.content = "missing" \/ first.text = Absent THEN
         IF first.finishReason # Absent /\ first.finishReason # STOP
         THEN MsgNotGenerated(first.finishReason)
         ELSE MsgImproperResponse
       ELSE Absent

\* Lines 421-428: the outer catch
KnownPrefixes ==
  { <<"A", "P", "I", " ", "E", "r", "r", "o", "r">>,
    <<"T", "h", "e", " ", "A", "I">>,
    <<"Y", "o", "u", "r", " ", "r", "e", "q", "u", "e", "s", "t",
      " ", "w", "a", "s", " ", "b", "l", "o", "c", "k", "e", "d">>,
    <<"A", " ", "v", "a", "l", "i", "d", " ", "G", "e", "m", "i",
      "n", "i", " ", "A", "P", "I", " ", "k", "e", "y">> }

Rethrown(message) ==
  IF \E prefix \in KnownPrefixes : StartsWith(message, prefix)
  THEN message
  ELSE MsgFailedToConnect(message)

NoApiOutcome == [kind |-> "none", value |-> Absent]
Returns(text) == [kind |-> "returns", value |-> text]
Throws(message) == [kind |-> "throws", value |-> message]

\* A call with attempt = 1; responses, requests and waits record what the
\* call received, how many requests it sent and how long it waited
NewCall(apiKey) ==
  [ pc |-> "call", apiKey |-> apiKey, attempt |-> 1, requests |-> 0,
    responses |-> <<>>, waits |-> <<>>, outcome |-> NoApiOutcome ]

ApiIdle == api = [NewCall(<<"k">>) EXCEPT !.pc = "off"]

ApiOthers == UNCHANGED <<ckVars, hdVars, pipeVars, svcVars, upVars, genVars>>

\* Lines 331-354: the key is tested, then the request is sent
CallGeminiApi ==
  /\ api.pc = "call"
  /\ api' = IF KeyRejected(api.apiKey)
            THEN [api EXCEPT !.pc = "done", !.outcome = Throws(MsgKeyRequired)]
            ELSE [api EXCEPT !.pc = "fetching", !.requests = @ + 1]
  /\ ApiOthers

\* What the call does with a settled fetch
AfterFetch(call, r) ==
  LET seen == [call EXCEPT !.responses = Append(@, r)] IN
  IF r.rejects
  THEN [seen EXCEPT !.pc = "done", !.outcome = Throws(Rethrown(FailedToFetch))]
  ELSE IF ~ResponseOk(r)
  THEN IF ShouldRetry(r.status, call.attempt)
       THEN [seen EXCEPT !.pc = "waiting",
                         !.waits = Append(@, BackoffDelay(call.attempt))]
       ELSE [seen EXCEPT !.pc = "done",
                         !.outcome = Throws(Rethrown(UserMessage(r)))]
  ELSE IF ThrownForBody(r) # Absent
  THEN [seen EXCEPT !.pc = "done",
                    !.outcome = Throws(Rethrown(ThrownForBody(r)))]
  ELSE [seen EXCEPT !.pc = "done",
                    !.outcome = Returns(r.json.candidates[1].text)]

FetchSettles ==
  /\ api.pc = "fetching"
  /\ \E r \in Responses : api' = AfterFetch(api, r)
  /\ ApiOthers

\* Lines 371-372: the delay has passed and the call is made again with
\* attempt + 1; what that call settles with is what this one settles with
BackoffElapses ==
  /\ api.pc = "waiting"
  /\ api' = [api EXCEPT !.pc = "call", !.attempt = @ + 1]
  /\ ApiOthers

\* ------------------------------------------------------------------------
\* generateQuestions: three calls of the generation service and the parsers
\* ------------------------------------------------------------------------
\* The question types in the order generateQuestions handles them
QuestionTypes == <<"mcq", "fillblank", "truefalse">>

\* A response text is a sequence of blocks, each written in the format asked
\* for one question type, or in none
BlockKinds == {"mcq", "fillblank", "truefalse", "other"}

ResponseTexts == UNION { [1..n -> BlockKinds] : n \in 0..MaxBlocksInText }

Requests ==
  [mcqCount : 0..MaxCount, fillBlankCount : 0..MaxCount, trueFalseCount : 0..MaxCount]

CountOf(request, type) ==
  IF type = "mcq" THEN request.mcqCount
  ELSE IF type = "fillblank" THEN request.fillBlankCount
  ELSE request.trueFalseCount

\* How an engine reports a regular expression literal that is no pattern:
\* when the module is parsed (an early error, ECMAScript 13.2.7.2), or when
\* the literal is evaluated
RegExpErrors == {"early", "deferred"}

\* Lines 435, 457, 477: the pattern of the type's parser is a regular
\* expression.  The one of parseMCQText has an unmatched ')' after "\nD".
PatternIsValid(type) == type # "mcq"

\* The blocks the pattern of the type's parser matches: the fill-blank
\* pattern (number, text, Answer:, Explanation:, text running over lines)
\* also matches a block written for another type
MatchedKinds(type) ==
  IF type = "fillblank" THEN {"mcq", "fillblank", "truefalse"}
  ELSE IF type = "truefalse" THEN {"truefalse"}
  ELSE {}

RegexMatches(type, textBlock) ==
  SelectSeq(textBlock, LAMBDA b : b \in MatchedKinds(type))

FailedToParse(type) ==
  IF type = "mcq" THEN "Failed to parse MCQ"
  ELSE IF type = "fillblank" THEN "Failed to parse Fill-Blank"
  ELSE "Failed to parse T/F"

ErrorGenerating(type) ==
  IF type = "mcq" THEN "Error generating MCQ"
  ELSE IF type = "fillblank" THEN "Error generating Fill-blank"
  ELSE "Error generating T/F"

\* Lines 433-453, 455-473, 475-493: parseMCQText, parseFillBlankText and
\* parseTrueFalseText, once the pattern is built: up to count matches, then
\* placeholders up to count, then slice(0, count)
ParseText(type, textBlock, count) ==
  LET matches == RegexMatches(type, textBlock)
      parsedCount == IF Len(matches) < count THEN Len(matches) ELSE count
      parsed == [i \in 1..parsedCount |-> [question |-> "parsed", block |-> matches[i]]]
      padded == parsed \o [i \in 1..(count - parsedCount) |->
                             [question |-> FailedToParse(type), block |-> "none"]]
  IN  SubSeq(padded, 1, IF count < Len(padded) THEN count ELSE Len(padded))

IdPrefix(type) ==
  IF type = "mcq" THEN <<"m", "c", "q", "_">>
  ELSE IF type = "fillblank" THEN <<"f", "i", "l", "l", "_">>
  ELSE <<"t", "f", "_">>

ErrIdPrefix(type) ==
  IF type = "mcq" THEN <<"m", "c", "q", "_", "e", "r", "r", "_">>
  ELSE IF type = "fillblank" THEN <<"f", "i", "l", "l", "_", "e", "r", "r", "_">>
  ELSE <<"t", "f", "_", "e", "r", "r", "_">>

\* `${prefix}${questionId++}` for each of the questions in turn
WithIds(g, prefix, type, questions) ==
  [g EXCEPT !.allQuestions = @ \o
              [i \in 1..Len(questions) |->
                 [id |-> prefix \o ToDecimal(g.questionId + i - 1),
                  type |-> type,
                  question |-> questions[i].question]],
            !.questionId = @ + Len(questions)]

\* Line 538
MsgKeyRequiredForQuestions ==
  <<"A", "P", "I", " ", "K", "e", "y", " ", "i", "s", " ", "r",
    "e", "q", "u", "i", "r", "e", "d", " ", "f", "o", "r", " ",
    "g", "e", "n", "e", "r", "a", "t", "i", "n", "g", " ", "q",
    "u", "e", "s", "t", "i", "o", "n", "s", ".">>

\* A call not yet made, in a module not yet evaluated
NewGeneration ==
  [pc |-> "module", regExpErrors |-> "deferred", apiKey |-> <<>>,
   request |-> [mcqCount |-> 0, fillBlankCount |-> 0, trueFalseCount |-> 0],
   questionId |-> 1, allQuestions |-> <<>>, apiCalls |-> 0,
   outcome |-> NoApiOutcome]

GenIdle == gen = [NewGeneration EXCEPT !.pc = "off"]

GenOthers == UNCHANGED <<ckVars, hdVars, pipeVars, svcVars, upVars, apiVars>>

\* Lines 548, 564, 580: the next type with a positive count gets its call of
\* callGeminiApi; after the last one the questions are returned (line 597)
FromType(g, k) ==
  LET todo == {j \in k..Len(QuestionTypes) : CountOf(g.request, QuestionTypes[j]) > 0}
  IN  IF todo = {}
      THEN [g EXCEPT !.pc = "done", !.outcome = Returns(g.allQuestions)]
      ELSE [g EXCEPT !.pc = QuestionTypes[CHOOSE j \in todo : \A m \in todo : j <= m],
                     !.apiCalls = @ + 1]

TypeIndex(type) == CHOOSE k \in 1..Len(QuestionTypes) : QuestionTypes[k] = type

\* Lines 552-561 (and 568-577, 584-593): the call of callGeminiApi has
\* settled with o; its text is parsed, or placeholders are added for an
\* error thrown by the call or by the parser
AfterApiCall(g, type, o) ==
  LET count == CountOf(g.request, type)
      errors == [i \in 1..count |-> [question |-> ErrorGenerating(type)]]
      added == IF o.kind = "returns" /\ PatternIsValid(type)
               THEN WithIds(g, IdPrefix(type), type, ParseText(type, o.value, count))
               ELSE WithIds(g, ErrIdPrefix(type), type, errors)
  IN  FromType(added, TypeIndex(type) + 1)

\* What callGeminiApi can settle with for the key
ApiOutcomes(apiKey) ==
  IF KeyRejected(apiKey)
  THEN {Throws(MsgKeyRequired)}
  ELSE {Returns(text) : text \in ResponseTexts} \cup {Throws(MsgRateLimited)}

\* The module geminiApi.ts is evaluated: with early errors it does not
\* parse, and nothing it exports can be called
LoadModule(regExpErrors) ==
  /\ gen.pc = "module"
  /\ gen' = IF regExpErrors = "early"
               /\ \E k \in 1..Len(QuestionTypes) : ~PatternIsValid(QuestionTypes[k])
            THEN [gen EXCEPT !.pc = "syntaxError", !.regExpErrors = regExpErrors]
            ELSE [gen EXCEPT !.pc = "idle", !.regExpErrors = regExpErrors]
  /\ GenOthers

\* Lines 532-552: generateQuestions up to its first await
GenerateQuestions(apiKey, request) ==
  /\ gen.pc = "idle"
  /\ gen' = LET g == [gen EXCEPT !.apiKey = apiKey, !.request = request] IN
            IF apiKey = <<>>
            THEN [g EXCEPT !.pc = "done", !.outcome = Throws(MsgKeyRequiredForQuestions)]
            ELSE FromType(g, 1)
  /\ GenOthers

\* The awaited call of callGeminiApi settles
ApiCallSettles ==
  /\ gen.pc \in {"mcq", "fillblank", "truefalse"}
  /\ \E o \in ApiOutcomes(gen.apiKey) : gen' = AfterApiCall(gen, gen.pc, o)
  /\ GenOthers

\* ------------------------------------------------------------------------
\* determineErrorType: the classification of an error by its message
\* ------------------------------------------------------------------------
\* The messages of the PDFProcessingErrors the processor throws, by code
MsgInvalidFileType ==
  <<"I", "n", "v", "a", "l", "i", "d", " ", "f", "i", "l", "e",
    " ", "t", "y", "p", "e", ".", " ", "P", "l", "e", "a", "s",
    "e", " ", "u", "p", "l", "o", "a", "d", " ", "a", " ", "P",
    "D", "F", " ", "f", "i", "l", "e", ".">>
MsgFileTooLarge ==
  <<"F", "i", "l", "e", " ", "t", "o", "o", " ", "l", "a", "r",
    "g", "e", ".", " ", "P", "l", "e", "a", "s", "e", " ", "u",
    "p", "l", "o", "a", "d", " ", "a", " ", "P", "D", "F", " ",
    "s", "m", "a", "l", "l", "e", "r", " ", "t", "h", "a", "n",
    " ", "5", "0", "M", "B", ".">>
MsgOcrInitFailed ==
  <<"F", "a", "i", "l", "e", "d", " ", "t", "o", " ", "i", "n",
    "i", "t", "i", "a", "l", "i", "z", "e", " ", "O", "C", "R",
    " ", "e", "n", "g", "i", "n", "e", ".", " ", "O", "C", "R",
    " ", "w", "i", "l", "l", " ", "b", "e", " ", "s", "k", "i",
    "p", "p", "e", "d", " ", "f", "o", "r", " ", "s", "c", "a",
    "n", "n", "e", "d", " ", "p", "a", "g", "e", "s", ".">>
MsgOcrEmpty ==
  <<"N", "o", " ", "t", "e", "x", "t", " ", "c", "o", "u", "l",
    "d", " ", "b", "e", " ", "e", "x", "t", "r", "a", "c", "t",
    "e", "d", ".", " ", "T", "h", "e", " ", "d", "o", "c", "u",
    "m", "e", "n", "t", " ", "m", "i", "g", "h", "t", " ", "b",
    "e", " ", "i", "m", "a", "g", "e", "-", "b", "a", "s", "e",
    "d", " ", "a", "n", "d", " ", "O", "C", "R", " ", "f", "o",
    "u", "n", "d", " ", "n", "o", " ", "t", "e", "x", "t", ",",
    " ", "o", "r", " ", "i", "t", " ", "i", "s", " ", "c", "o",
    "r", "r", "u", "p", "t", "e", "d", ".">>
MsgNoText ==
  <<"N", "o", " ", "t", "e", "x", "t", " ", "c", "o", "u", "l",
    "d", " ", "b", "e", " ", "e", "x", "t", "r", "a", "c", "t",
    "e", "d", " ", "f", "r", "o", "m", " ", "t", "h", "i", "s",
    " ", "P", "D", "F", ".", " ", "T", "h", "e", " ", "d", "o",
    "c", "u", "m", "e", "n", "t", " ", "m", "a", "y", " ", "b",
    "e", " ", "c", "o", "r", "r", "u", "p", "t", "e", "d", " ",
    "o", "r", " ", "c", "o", "n", "t", "a", "i", "n", " ", "o",
    "n", "l", "y", " ", "i", "m", "a", "g", "e", "s", ".">>

\* Lines 229-243 and 332-350; OCR_INIT_FAILED_NO_TEXT carries the message
\* kept in ocrInitializationError
MessageOfCode(code) ==
  CASE code = "INVALID_FILE_TYPE" -> MsgInvalidFileType
    [] code = "FILE_TOO_LARGE" -> MsgFileTooLarge
    [] code = "OCR_INIT_FAILED_NO_TEXT" -> MsgOcrInitFailed
    [] code = "NO_TEXT_EXTRACTED_OCR_EMPTY" -> MsgOcrEmpty
    [] code = "NO_TEXT_EXTRACTED" -> MsgNoText

determineErrorType(message) ==
  IF Includes(message, <<"O", "C", "R">>)
  THEN "OCR_INITIALIZATION"
  ELSE IF Includes(message,
                   <<"t", "e", "x", "t", " ", "c", "o", "u", "l", "d", " ", "n",
                     "o", "t", " ", "b", "e", " ", "e", "x", "t", "r", "a", "c",
                     "t", "e", "d">>)
  THEN "NO_TEXT_EXTRACTED"
  ELSE IF Includes(message, <<"F", "i", "l", "e", " ", "t", "o", "o", " ", "l", "a", "r",
                              "g", "e">>)
  THEN "FILE_TOO_LARGE"
  ELSE IF Includes(message, <<"I", "n", "v", "a", "l", "i", "d", " ", "f", "i", "l", "e",
                              " ", "t", "y", "p", "e">>)
  THEN "INVALID_FILE_TYPE"
  ELSE IF Includes(message, <<"A", "P", "I", " ", "k", "e", "y">>)
  THEN "API_KEY_REQUIRED"
  ELSE "UNKNOWN_ERROR"

\* ------------------------------------------------------------------------
\* Specifications
\* ------------------------------------------------------------------------
\* One document is processed
Init ==
  /\ CkIdle
  /\ HdIdle
  /\ SvcIdle
  /\ UpIdle
  /\ ApiIdle /\ GenIdle
  /\ workers = <<>>
  /\ \E f \in Files, d \in DocsUpTo(MaxPages) :
       /\ ~Accepted(f) => d = <<>>
       /\ f # SmallPdf => Len(d) <= 1
       /\ file = [r \in RunIds |-> IF r = "A" THEN f ELSE SmallPdf]
       /\ doc = [r \in RunIds |-> IF r = "A" THEN d ELSE <<>>]
  /\ run = [r \in RunIds |-> IF r = "A" THEN NewRun ELSE NotStarted]

Next == \E r \in RunIds : Step(r)

Spec == Init /\ [][Next]_vars

\* One document is processed by the revision of lib/enhancedPdfProcessor.ts,
\* where the call of initializeOcrWorkerIfNeeded on a scanned page raises a
\* ReferenceError and no worker is ever created
\* A page that reads as a heading, and a page of 100 characters that
\* starts like a numbered heading
TitlePage == <<"A">> \o Rep("a", 50)
LongNumbered == <<"1", ".", SP>> \o Rep("a", 97)

LibDocsUpTo(n) ==
  UNION { [1..k -> PageTexts \cup {TitlePage, LongNumbered}] : k \in 0..n }

InitLib ==
  /\ CkIdle
  /\ HdIdle
  /\ SvcIdle
  /\ UpIdle
  /\ ApiIdle /\ GenIdle
  /\ workers = <<>>
  /\ \E f \in Files, d \in LibDocsUpTo(MaxPages) :
       /\ ~Accepted(f) => d = <<>>
       /\ f # SmallPdf => Len(d) <= 1
       /\ file = [r \in RunIds |-> IF r = "A" THEN f ELSE SmallPdf]
       /\ doc = [r \in RunIds |-> IF r = "A" THEN d ELSE <<>>]
  /\ run = [r \in RunIds |->
              IF r = "A" THEN [NewRun EXCEPT !.revision = LibRevision]
              ELSE NotStarted]

NextLib ==
  \E r \in RunIds :
    \/ Validate(r)
    \/ LoadDocument(r)
    \/ LoadDocumentFails(r)
    \/ GetPageText(r)
    \/ GetPageFails(r)
    \/ SettleNoWorker(r)

SpecLib == InitLib /\ [][NextLib]_vars

\* Two documents are processed concurrently; each page has a digital text
\* layer or none
ConcDocs == UNION { [1..k -> {Digital51, NoLayer}] : k \in 0..ConcPages }

InitConc ==
  /\ CkIdle
  /\ HdIdle
  /\ SvcIdle
  /\ UpIdle
  /\ ApiIdle /\ GenIdle
  /\ workers = <<>>
  /\ file = [r \in RunIds |-> SmallPdf]
  /\ doc \in [RunIds -> ConcDocs]
  /\ run = [r \in RunIds |-> NewRun]

SpecConc == InitConc /\ [][Next]_vars

\* chunkText is called on a drawn text, page map and maxTokens
InitChunk == CkInit /\ HdIdle /\ PipeIdle /\ SvcIdle /\ UpIdle /\ ApiIdle /\ GenIdle

NextChunk == ChunkTextReturns \/ ChunkTextThrows

SpecChunk == InitChunk /\ [][NextChunk]_vars

\* Callers use one OcrService
InitOcr == CkIdle /\ HdIdle /\ PipeIdle /\ SvcInit /\ UpIdle /\ ApiIdle /\ GenIdle

NextOcr ==
  \/ \E c \in CallerIds :
       \/ CallInitialize(c)
       \/ ObserveInit(c)
       \/ CallTerminate(c)
       \/ CallTerminateNoWorker(c)
       \/ TerminateResolves(c)
       \/ TerminateRejects(c)
  \/ \E p \in 1..MaxPromises :
       \/ ExecCreateWorker(p)
       \/ ExecStepOk(p)
       \/ ExecStepFails(p)

SpecOcr == InitOcr /\ [][NextOcr]_vars

\* One caller uses the OcrService, each call after the one before has
\* completed
InitSeq ==
  /\ CkIdle /\ HdIdle /\ PipeIdle /\ UpIdle /\ ApiIdle /\ GenIdle
  /\ svc = NewService
  /\ promises = <<>>
  /\ svcWorkers = <<>>
  /\ callers = [c \in CallerIds |->
                  IF c = "c1" THEN NewCaller ELSE [NewCaller EXCEPT !.pc = "off"]]

SpecSeq == InitSeq /\ [][NextOcr]_vars

\* extractHeadings is called on a drawn text
InitHead == CkIdle /\ HdInit /\ PipeIdle /\ SvcIdle /\ UpIdle /\ ApiIdle /\ GenIdle

NextHead == ExtractHeadingsReturns

SpecHead == InitHead /\ [][NextHead]_vars

\* The uploader is used
InitUp == CkIdle /\ HdIdle /\ PipeIdle /\ SvcIdle /\ ApiIdle /\ GenIdle /\ up = NewUploader

NextUp ==
  \/ \E f \in UploadFiles : ChooseFile(f) \/ DropFile(f)
  \/ \E i \in 1..MaxHandled : SettleRun(i)
  \/ ClickRetry
  \/ \E i \in 1..MaxTimers : TimerFires(i)
  \/ ClickTryDifferentFile
  \/ ClickTryAnotherFile

SpecUp == InitUp /\ [][NextUp]_vars

\* callGeminiApi is called with a drawn key; the service answers each
\* request and every delay passes
InitApi ==
  /\ CkIdle /\ HdIdle /\ PipeIdle /\ SvcIdle /\ UpIdle /\ GenIdle
  /\ \E apiKey \in ApiKeys : api = NewCall(apiKey)

NextApi == CallGeminiApi \/ FetchSettles \/ BackoffElapses

SpecApi == InitApi /\ [][NextApi]_vars /\ WF_vars(NextApi)

\* The module is evaluated and generateQuestions is called once with a drawn
\* key and request; the service answers each of its calls
InitGen ==
  /\ CkIdle /\ HdIdle /\ PipeIdle /\ SvcIdle /\ UpIdle /\ ApiIdle
  /\ gen = NewGeneration

NextGen ==
  \/ \E regExpErrors \in RegExpErrors : LoadModule(regExpErrors)
  \/ \E apiKey \in ApiKeys, request \in Requests : GenerateQuestions(apiKey, request)
  \/ ApiCallSettles

SpecGen == InitGen /\ [][NextGen]_vars

\* ------------------------------------------------------------------------
\* Properties
\* ------------------------------------------------------------------------
Reported(l, stage) == \E i \in 1..Len(l.progress) : l.progress[i].stage = stage

Count(seq, x) == Cardinality({i \in 1..Len(seq) : seq[i] = x})

IsScannedPage(text) == Len(Trim(text)) <= MIN_TEXT_LENGTH

ScannedPages(d) == {i \in 1..Len(d) : IsScannedPage(d[i])}

\* The run called chunkText: the page loop ended and the text is not empty
ReachedChunkText(l) == Reported(l, "chunking") /\ l.fullText # <<>>

WorkersOf(r) == {w \in WorkerIds : workers[w].owner = r}

\* C1: in every run that reaches chunking, the paragraph->page map has as
\* many entries as the cleaned-up full text has paragraphs.
C1_MapMatchesParagraphs ==
  \A r \in RunIds :
    ReachedChunkText(run[r]) =>
      Len(run[r].paragraphPageMap) = Len(Paragraphs(run[r].fullText))

\* C2: a worker that was created is terminated exactly once before the
\* returned promise settles, on every exit path; a run that created no
\* worker never calls terminate.
C2_TerminateExactlyOnce ==
  \A r \in RunIds :
    /\ \A w \in WorkersOf(r) : workers[w].terminateCalls <= 1
    /\ run[r].pc = "done" => \A w \in WorkersOf(r) : workers[w].terminateCalls = 1
    /\ WorkersOf(r) = {} => run[r].terminateCalls = 0
    /\ run[r].terminateCalls <= 1

\* A run has settled after its worker was created and a later
\* initialisation step failed
C2_Witness ==
  \E r \in RunIds :
    /\ run[r].pc = "done"
    /\ WorkersOf(r) # {}
    /\ run[r].ocrInitializationError # Null
    /\ run[r].terminateCalls = 1

\* C3: a run makes at most one OCR initialisation attempt; every
\* recognition uses the one worker of the run; after a failed
\* initialisation the message is in the warnings once and no recognition is
\* attempted.
C3_SingleInitAttempt ==
  \A r \in RunIds :
    LET l == run[r] IN
    /\ l.initAttempts <= 1
    /\ Cardinality(WorkersOf(r)) <= 1
    /\ l.recognizedWith \subseteq WorkersOf(r)
    /\ l.ocrInitializationError # Null =>
         /\ l.recognizeCalls = 0
         /\ Count(l.warnings, OcrInitMessage) = 1
    /\ l.ocrInitializationError = Null => Count(l.warnings, OcrInitMessage) = 0

\* The page loop of a document with two scanned pages ended after a
\* failed initialisation
C3_Witness ==
  \E r \in RunIds :
    /\ Reported(run[r], "chunking")
    /\ run[r].ocrInitializationError # Null
    /\ Cardinality(ScannedPages(doc[r])) >= 2

ExpectedNoTextCode(l) ==
  IF l.ocrInitializationError # Null /\ ~l.hasDigitalText
  THEN "OCR_INIT_FAILED_NO_TEXT"
  ELSE IF ~l.hasDigitalText /\ l.hasScannedContent /\ l.ocrInitializationError = Null
  THEN "NO_TEXT_EXTRACTED_OCR_EMPTY"
  ELSE "NO_TEXT_EXTRACTED"

\* C4: an empty text after the page loop is thrown as a non-recoverable
\* error with the code of its cause, never as PROCESSING_FAILED; a
\* scanned-only document whose OCR initialisation fails gets
\* OCR_INIT_FAILED_NO_TEXT.
C4_EmptyTextClassified ==
  \A r \in RunIds :
    LET l == run[r] IN
    /\ (Reported(l, "chunking") /\ l.fullText = <<>>) =>
         /\ l.outcome.kind = "error"
         /\ l.outcome.recoverable = FALSE
         /\ l.outcome.code = ExpectedNoTextCode(l)
         /\ l.outcome.code # "PROCESSING_FAILED"
    /\ (Reported(l, "chunking") /\ l.ocrInitializationError # Null
          /\ ScannedPages(doc[r]) = 1..Len(doc[r])) =>
         /\ l.outcome.kind = "error"
         /\ l.outcome.code = "OCR_INIT_FAILED_NO_TEXT"
         /\ l.outcome.recoverable = FALSE

\* A scanned-only document whose OCR initialisation failed has settled
C4_Witness ==
  \E r \in RunIds :
    /\ run[r].pc = "done"
    /\ Len(doc[r]) >= 1
    /\ ScannedPages(doc[r]) = 1..Len(doc[r])
    /\ run[r].outcome.code = "OCR_INIT_FAILED_NO_TEXT"

\* C5: a run whose OCR initialisation failed and that found digital text
\* (and met no rejected pdf.js call) returns a result whose warnings hold
\* the failure message, with ocrAttempted and not ocrSucceeded.
C5_DigitalSurvivesOcrFailure ==
  \A r \in RunIds :
    LET l == run[r] IN
    (l.pc = "done" /\ l.ocrInitializationError # Null /\ l.hasDigitalText
       /\ ~l.ioThrew) =>
      /\ l.outcome.kind = "result"
      /\ Count(l.warnings, OcrInitMessage) >= 1
      /\ l.ocrAttemptedOnDocument
      /\ ~l.ocrSucceededOnAnyPage

Contents(chunks) == [i \in 1..Len(chunks) |-> chunks[i].content]

TrimmedParagraphs(text) ==
  LET ps == Paragraphs(text) IN [i \in 1..Len(ps) |-> Trim(ps[i])]

\* C6: the contents of the returned chunks, joined in order with the
\* paragraph separator, are the paragraphs of the input joined with the
\* separator: each once, in order; for a text in cleaned-up form this is
\* the text itself.
C6_RoundTrip ==
  ckPc = "returned" =>
    /\ JoinWith(Contents(ckOut.chunks), ParaSep)
         = JoinWith(TrimmedParagraphs(ckText), ParaSep)
    /\ CleanUp(ckText) = ckText =>
         JoinWith(Contents(ckOut.chunks), ParaSep) = ckText

\* chunkText returned two chunks or more, one of them of several paragraphs
C6_Witness ==
  /\ ckPc = "returned"
  /\ Len(ckOut.chunks) >= 2
  /\ \E i \in 1..Len(ckOut.chunks) :
       \E j \in 1..Len(ckOut.chunks[i].content) : ckOut.chunks[i].content[j] = NL

Oversized(chunks, maxTokens) ==
  {i \in 1..Len(chunks) : chunks[i].tokenCount > maxTokens}

\* C7 as stated: at most one chunk of an output exceeds maxTokens.
C7_AtMostOneOversized ==
  ckPc = "returned" => Cardinality(Oversized(ckOut.chunks, ckMax)) <= 1

\* C7 as amended: every chunk that exceeds maxTokens is one paragraph of
\* the input that exceeds maxTokens on its own.
C7_OversizedIsOneParagraph ==
  ckPc = "returned" =>
    \A i \in Oversized(ckOut.chunks, ckMax) :
      /\ \E j \in 1..Len(TrimmedParagraphs(ckText)) :
           ckOut.chunks[i].content = TrimmedParagraphs(ckText)[j]
      /\ ckOut.chunks[i].tokenCount = estimateTokens(ckOut.chunks[i].content)

\* chunkText returned two oversized chunks
C7_Witness ==
  /\ ckPc = "returned"
  /\ Cardinality(Oversized(ckOut.chunks, ckMax)) >= 2

\* C8: in every returned result each chunk has pageStart <= pageEnd and
\* the page ranges of consecutive chunks do not decrease.
C8_PageRangesMonotone ==
  \A r \in RunIds :
    LET cs == run[r].outcome.chunks IN
    run[r].outcome.kind = "result" =>
      /\ \A i \in 1..Len(cs) : cs[i].pageStart <= cs[i].pageEnd
      /\ \A i \in 1..(Len(cs) - 1) :
           /\ cs[i].pageStart <= cs[i + 1].pageStart
           /\ cs[i].pageEnd <= cs[i + 1].pageEnd

\* A result was returned whose chunk comes from the second page
C8_Witness ==
  \E r \in RunIds :
    /\ run[r].pc = "done"
    /\ run[r].outcome.kind = "result"
    /\ Len(run[r].outcome.chunks) >= 1
    /\ run[r].outcome.chunks[1].pageStart = 2

Initializers == {c \in CallerIds : callers[c].initCalls > 0}

NoTerminateCalled == \A c \in CallerIds : callers[c].terminateCalls = 0

\* C9: as long as only initializeWorker is called, one promise and so one
\* createWorker call is made, at most one worker exists, every caller holds
\* that promise and every caller that has observed an outcome observed the
\* outcome of that promise.
C9_SingleInitialization ==
  NoTerminateCalled =>
    /\ Len(promises) <= 1
    /\ Len(svcWorkers) <= 1
    /\ \A c \in Initializers : callers[c].promise = 1
    /\ \A c \in Initializers :
         callers[c].observed \in {"none", promises[1].state}
    /\ \A c, d \in Initializers :
         (callers[c].observed # "none" /\ callers[d].observed # "none") =>
           callers[c].observed = callers[d].observed

\* Two callers await the initialisation while it is in flight with its
\* worker created
C9_Witness ==
  /\ NoTerminateCalled
  /\ \A c \in CallerIds : callers[c].pc = "awaitInit"
  /\ Len(promises) = 1 /\ promises[1].state = "pending"
  /\ Len(svcWorkers) = 1

\* C10: a worker is used for recognition and terminated only by the run
\* that created it, the worker a run holds is its own, and a run skips OCR
\* only on its own recorded failure.
C10_WorkersNotShared ==
  /\ \A w \in WorkerIds :
       /\ workers[w].recognizedBy \subseteq {workers[w].owner}
       /\ workers[w].terminatedBy \subseteq {workers[w].owner}
  /\ \A r \in RunIds :
       /\ run[r].ocrWorker # NoWorker => workers[run[r].ocrWorker].owner = r
       /\ run[r].recognizedWith \subseteq WorkersOf(r)
       /\ (run[r].pc = "recognize" /\ run[r].ocrInitializationError = Null) =>
            run[r].ocrWorker \in WorkersOf(r)
       /\ run[r].ocrInitializationError # Null => run[r].initAttempts = 1

\* One run terminates the worker of its failed initialisation while the
\* other run is recognising with its own worker
C10_Witness ==
  \E r, q \in RunIds :
    /\ r # q
    /\ run[r].pc = "terminating"
    /\ run[r].ocrInitializationError # Null
    /\ run[q].pc = "recognize"
    /\ run[q].ocrInitializationError = Null
    /\ run[q].ocrWorker # run[r].ocrWorker

\* A run has left validation
Validated(l) == l.pc \notin {"start", "off"}

RejectedBy(l, code) ==
  /\ l.outcome.kind = "error"
  /\ l.outcome.code = code
  /\ l.outcome.recoverable = FALSE
  /\ l.loadCalls = 0
  /\ l.progress = <<>>
  /\ l.initAttempts = 0

\* C11: a file whose type does not contain "pdf" is rejected with
\* INVALID_FILE_TYPE; otherwise a file of more than 50*1024*1024 bytes is
\* rejected with FILE_TOO_LARGE; both errors are not recoverable and are
\* thrown with no load attempted, no progress event and no OCR
\* initialisation; a PDF of at most 50*1024*1024 bytes passes validation.
C11_ValidationFirst ==
  \A r \in RunIds :
    LET l == run[r]
        f == file[r]
    IN  Validated(l) =>
          /\ ~IsPdfType(f.type) =>
               RejectedBy(l, "INVALID_FILE_TYPE") /\ WorkersOf(r) = {}
          /\ (IsPdfType(f.type) /\ f.size > 50 * 1024 * 1024) =>
               RejectedBy(l, "FILE_TOO_LARGE") /\ WorkersOf(r) = {}
          /\ (IsPdfType(f.type) /\ f.size <= 50 * 1024 * 1024) =>
               /\ l.loadCalls = 1
               /\ l.outcome.code \notin {"INVALID_FILE_TYPE", "FILE_TOO_LARGE"}

\* A PDF of one byte more than the limit was rejected and the call settled
C11_Witness ==
  \E r \in RunIds :
    /\ run[r].pc = "done"
    /\ IsPdfType(file[r].type)
    /\ file[r].size = 50 * 1024 * 1024 + 1
    /\ run[r].settled.code = "FILE_TOO_LARGE"

PageStages == {"extracting", "ocr"}

\* C12: the stages reported in a run are a prefix of a word of
\* loading extracting (extracting | ocr)* chunking complete: the first event
\* is loading, the second the extracting milestone, page events follow,
\* chunking comes after the last page event, complete comes once, last,
\* right after chunking and only in a run that returns a result, and ocr
\* is reported only for a page classified as scanned.
C12_StagesWellFormed ==
  \A r \in RunIds :
    LET l == run[r]
        p == l.progress
        n == Len(p)
    IN  /\ \A i \in 1..n :
             /\ (i = 1) <=> (p[i].stage = "loading")
             /\ (i = 2) => (p[i].stage = "extracting" /\ p[i].page = 0)
             /\ (i >= 3 /\ p[i].stage \in PageStages) =>
                  /\ p[i].page \in 1..Len(doc[r])
                  /\ \A j \in 3..i : p[j].stage \in PageStages
             /\ p[i].stage = "chunking" =>
                  /\ i >= 3
                  /\ \A j \in 3..(i - 1) : p[j].stage \in PageStages
                  /\ \A j \in (i + 1)..n : p[j].stage = "complete"
             /\ p[i].stage = "complete" =>
                  /\ i = n
                  /\ i >= 4
                  /\ p[i - 1].stage = "chunking"
                  /\ l.outcome.kind = "result"
                  /\ l.pc = "done" => l.settled.kind = "result"
             /\ p[i].stage = "ocr" => IsScannedPage(doc[r][p[i].page])
        /\ (l.pc = "done" /\ l.settled.kind = "result") =>
             (n >= 4 /\ p[n].stage = "complete")

\* A result was returned for a document with a digital page and a scanned
\* page on which OCR ran
C12_Witness ==
  \E r \in RunIds :
    /\ run[r].pc = "done"
    /\ run[r].settled.kind = "result"
    /\ Reported(run[r], "ocr")
    /\ \E i \in 3..Len(run[r].progress) : run[r].progress[i].stage = "extracting"
    /\ run[r].recognizeCalls >= 1

RatioLess(a, b) == a.num * b.den < b.num * a.den
RatioLeq(a, b) == a.num * b.den <= b.num * a.den

\* C13: the percentages reported in a run increase from each event to the
\* next, lie in 0..100, and 100 is reported only with stage complete.
C13_PercentagesIncrease ==
  \A r \in RunIds :
    LET p == run[r].progress IN
    /\ \A i \in 1..(Len(p) - 1) : RatioLess(p[i].percent, p[i + 1].percent)
    /\ \A i \in 1..Len(p) :
         /\ p[i].percent.den > 0
         /\ RatioLeq(Ratio(0, 1), p[i].percent)
         /\ RatioLeq(p[i].percent, Ratio(100, 1))
         /\ p[i].percent.num = 100 * p[i].percent.den => p[i].stage = "complete"

\* A result was returned for a three-page document with a digital page, a
\* page on which recognition ran and a page on which OCR was skipped
C13_Witness ==
  \E r \in RunIds :
    /\ run[r].pc = "done"
    /\ run[r].settled.kind = "result"
    /\ Len(doc[r]) = 3
    /\ Len(run[r].progress) = 7
    /\ run[r].recognizeCalls = 1
    /\ Cardinality(ScannedPages(doc[r])) = 2

\* The recognitions of a run that gave a text with content
Contributing(l) ==
  {i \in 1..Len(l.recognitions) : Trim(l.recognitions[i].text) # <<>>}

RECURSIVE SumConfidence(_, _)
SumConfidence(l, S) ==
  IF S = {} THEN 0
  ELSE LET i == CHOOSE x \in S : TRUE
       IN  l.recognitions[i].confidence + SumConfidence(l, S \ {i})

\* The mean confidence over the contributing recognitions, 0 if there are none
MeanConfidence(l) ==
  IF Contributing(l) = {} THEN Ratio(0, 1)
  ELSE Ratio(SumConfidence(l, Contributing(l)), Cardinality(Contributing(l)))

RatioEq(a, b) == a.num * b.den = b.num * a.den

\* C14 as stated: in every returned result ocrConfidence lies in 0..100, is
\* the mean confidence over the pages whose recognised text had content, and
\* is 0 exactly when no page used OCR successfully.
C14_ZeroExactlyWhenNoOcr ==
  \A r \in RunIds :
    LET l == run[r]
        c == l.settled.metadata.ocrConfidence
    IN  (l.pc = "done" /\ l.settled.kind = "result") =>
          /\ RatioLeq(Ratio(0, 1), c) /\ RatioLeq(c, Ratio(100, 1))
          /\ RatioEq(c, MeanConfidence(l))
          /\ (c.num = 0) <=> (Contributing(l) = {})

\* C14 as amended: in every returned result ocrConfidence lies in 0..100, is
\* the mean confidence over the pages whose recognised text had content, is
\* 0 when no page used OCR successfully, and otherwise is 0 only if every
\* such page reported confidence 0.
C14_ConfidenceIsMean ==
  \A r \in RunIds :
    LET l == run[r]
        c == l.settled.metadata.ocrConfidence
    IN  (l.pc = "done" /\ l.settled.kind = "result") =>
          /\ c.den > 0
          /\ RatioLeq(Ratio(0, 1), c) /\ RatioLeq(c, Ratio(100, 1))
          /\ RatioEq(c, MeanConfidence(l))
          /\ Contributing(l) = {} => c.num = 0
          /\ (Contributing(l) # {} /\ c.num = 0) =>
               \A i \in Contributing(l) : l.recognitions[i].confidence = 0

\* A result was returned after one recognition gave a text with content at
\* confidence 100 and another gave whitespace only
C14_Witness ==
  \E r \in RunIds :
    LET l == run[r] IN
    /\ l.pc = "done"
    /\ l.settled.kind = "result"
    /\ Cardinality(Contributing(l)) = 1
    /\ Len(l.recognitions) = 2
    /\ \E i \in 1..2 : l.recognitions[i].text # <<>> /\ i \notin Contributing(l)
    /\ l.settled.metadata.ocrConfidence = Ratio(100, 1)

DigitalPages(d) == {i \in 1..Len(d) : Len(Trim(d[i])) > 50}

Returned(l) == l.pc = "done" /\ l.settled.kind = "result"

\* C15 as stated: in every returned result hasDigitalText holds iff some
\* page's direct text has trimmed length above 50, hasScannedContent iff
\* some page's has not, ocrAttempted iff OCR initialisation was started,
\* and ocrSucceeded iff some recognition returned a text that is not empty.
C15_SucceededIffNonEmptyText ==
  \A r \in RunIds :
    LET l == run[r]
        m == l.settled.metadata
    IN  Returned(l) =>
          /\ m.hasDigitalText <=> DigitalPages(doc[r]) # {}
          /\ m.hasScannedContent <=> (1..Len(doc[r])) \ DigitalPages(doc[r]) # {}
          /\ m.ocrAttempted <=> l.initAttempts >= 1
          /\ m.ocrSucceeded <=>
               \E i \in 1..Len(l.recognitions) : l.recognitions[i].text # <<>>

\* C15 as amended: as C15, with ocrSucceeded iff some recognition
\* returned a text that is not empty after trimming whitespace.
C15_FlagsMatchHistory ==
  \A r \in RunIds :
    LET l == run[r]
        m == l.settled.metadata
    IN  Returned(l) =>
          /\ m.hasDigitalText <=> DigitalPages(doc[r]) # {}
          /\ m.hasScannedContent <=> (1..Len(doc[r])) \ DigitalPages(doc[r]) # {}
          /\ m.ocrAttempted <=> l.initAttempts >= 1
          /\ m.ocrSucceeded <=> Contributing(l) # {}

\* A result was returned for a document with a digital page and a page of
\* exactly 50 characters, whose recognition returned whitespace only
C15_Witness ==
  \E r \in RunIds :
    LET l == run[r] IN
    /\ Returned(l)
    /\ DigitalPages(doc[r]) # {}
    /\ \E i \in 1..Len(doc[r]) : doc[r][i] = Boundary50
    /\ l.recognitions # <<>>
    /\ Contributing(l) = {}
    /\ l.settled.metadata.hasScannedContent
    /\ l.settled.metadata.ocrAttempted
    /\ ~l.settled.metadata.ocrSucceeded

\* C16: a run on a document of three digital pages, none of whose pdf.js
\* calls rejects, returns a result with hasDigitalText, not
\* hasScannedContent, not ocrAttempted, at least one chunk, every chunk
\* tagged digital, no worker created and no ocr stage reported.
C16_ThreeDigitalPages ==
  \A r \in RunIds :
    LET l == run[r]
        m == l.settled.metadata
        cs == l.settled.chunks
    IN  (l.pc = "done" /\ ~l.ioThrew /\ Len(doc[r]) = 3
           /\ DigitalPages(doc[r]) = 1..3) =>
          /\ l.settled.kind = "result"
          /\ m.hasDigitalText /\ ~m.hasScannedContent /\ ~m.ocrAttempted
          /\ Len(cs) >= 1
          /\ \A i \in 1..Len(cs) : cs[i].extractionMethod = "digital"
          /\ WorkersOf(r) = {}
          /\ ~Reported(l, "ocr")

\* C17: a run on a document of two scanned pages, on both of which
\* recognition gives a text with content and none of whose pdf.js calls
\* rejects, returns a result with hasScannedContent, ocrAttempted,
\* ocrSucceeded, ocrConfidence in 0..100 and every chunk tagged ocr or
\* hybrid.
C17_TwoScannedPages ==
  \A r \in RunIds :
    LET l == run[r]
        m == l.settled.metadata
        cs == l.settled.chunks
    IN  (l.pc = "done" /\ ~l.ioThrew /\ Len(doc[r]) = 2
           /\ ScannedPages(doc[r]) = 1..2
           /\ Len(l.recognitions) = 2 /\ Contributing(l) = 1..2) =>
          /\ l.settled.kind = "result"
          /\ m.hasScannedContent /\ m.ocrAttempted /\ m.ocrSucceeded
          /\ RatioLeq(Ratio(0, 1), m.ocrConfidence)
          /\ RatioLeq(m.ocrConfidence, Ratio(100, 1))
          /\ \A i \in 1..Len(cs) : cs[i].extractionMethod \in {"ocr", "hybrid"}

\* C18: when chunkText throws on a page map whose length is not the
\* paragraph count, no chunk is produced and the error that reaches the
\* caller is not recoverable.
C18_MismatchNotRecoverable ==
  \A r \in RunIds :
    LET l == run[r] IN
    (l.pc = "done" /\ l.chunkTextThrew) =>
      /\ l.settled.kind = "error"
      /\ l.settled.chunks = <<>>
      /\ l.settled.recoverable = FALSE

\* C19: the promise settles with the result returned or the error thrown
\* by the try and catch blocks, whether terminate resolved or rejected.
C19_TeardownFailureSwallowed ==
  \A r \in RunIds :
    LET l == run[r] IN
    l.pc = "done" =>
      /\ l.settled = l.outcome
      /\ l.settled.kind \in {"result", "error"}
      /\ l.terminateThrew => l.terminateCalls = 1

\* A run settled with its result after terminate rejected
C19_Witness ==
  \E r \in RunIds :
    /\ run[r].pc = "done"
    /\ run[r].terminateThrew
    /\ run[r].settled.kind = "result"
    /\ run[r].recognizeCalls >= 1

TrimmedLines(text) ==
  LET lines == SplitLines(text) IN [i \in 1..Len(lines) |-> Trim(lines[i])]

FirstAt(seq, x) == SetMin({i \in 1..Len(seq) : seq[i] = x})

\* The distinct headings among the lines before line i
HeadingsBefore(tl, i) == {tl[j] : j \in {k \in 1..(i - 1) : IsHeading(tl[k])}}

\* C20: the list returned has at most 30 entries and no duplicates, each
\* entry is a heading line of the text, the entries are in the order of
\* their first appearance, and each of the lines "1. Introduction" and
\* "INTRODUCTION TO ALGORITHMS" is in the list exactly once when it is in the
\* text with fewer than 30 distinct headings before it.
C20_HeadingsOrderedSet ==
  hdPc = "returned" =>
    LET tl == TrimmedLines(hdText) IN
    /\ Len(hdOut) <= 30
    /\ \A i, j \in 1..Len(hdOut) : i # j => hdOut[i] # hdOut[j]
    /\ \A i \in 1..Len(hdOut) : \E k \in 1..Len(tl) : tl[k] = hdOut[i]
    /\ \A i, j \in 1..Len(hdOut) :
         i < j => FirstAt(tl, hdOut[i]) < FirstAt(tl, hdOut[j])
    /\ \A h \in {NumberedIntro, UpperIntro} :
         (/\ \E k \in 1..Len(tl) : tl[k] = h
          /\ Cardinality(HeadingsBefore(tl, FirstAt(tl, h))) < 30) =>
           Count(hdOut, h) = 1

\* The headings of a text with "1. Introduction", "INTRODUCTION TO
\* ALGORITHMS" and "1. Introduction" again were returned
C20_Witness ==
  /\ hdPc = "returned"
  /\ Count(TrimmedLines(hdText), NumberedIntro) = 2
  /\ FirstAt(TrimmedLines(hdText), NumberedIntro) = 1
  /\ Count(TrimmedLines(hdText), UpperIntro) = 1
  /\ hdOut = <<NumberedIntro, UpperIntro>>

C22_RetryPolicy ==
  /\ Len(up.retries) <= 3
  /\ \A k \in 1..Len(up.retries) :
       /\ up.retries[k].error.recoverable
       /\ up.retries[k].delay = 2 ^ (k - 1) * 1000
  /\ (up.error # NoError /\ ~up.error.recoverable) => handleRetry(up) = up

\* Three retries were scheduled since the last successful upload and the
\* component now shows a non-recoverable error
C22_Witness ==
  /\ up.uploads >= 1
  /\ Len(up.retries) = 3
  /\ up.error # NoError /\ ~up.error.recoverable

Retryable(r) == ~r.rejects /\ (r.status = 429 \/ r.status >= 500)

SawNoRetryable(call) ==
  \A i \in 1..Len(call.responses) : ~Retryable(call.responses[i])

\* Each wait follows a 429 or a status >= 500 and lasts 1000 * 2^(i-1) ms,
\* and no call sends more than 1 + MAX_RETRIES requests
BackoffDiscipline(call) ==
  /\ \A i \in 1..Len(call.waits) :
       /\ Retryable(call.responses[i])
       /\ call.waits[i] = 1000 * 2 ^ (i - 1)
  /\ call.requests <= 3
  /\ call.pc = "done" => call.outcome.kind \in {"returns", "throws"}

\* C23 as stated: retries follow only a 429 or a status >= 500, the wait
\* before the retry of attempt a is 1000 * 2^(a-1) ms, a call sends at most
\* 3 requests, and a call that fails in any other way has sent exactly 1
C23_OneRequestForAnyOtherFailure ==
  /\ BackoffDiscipline(api)
  /\ (api.pc = "done" /\ api.outcome.kind = "throws" /\ SawNoRetryable(api)) =>
       api.requests = 1

\* C23 amended: as stated, except that a call whose key is rejected sends
\* no request; and every call ends by returning text or throwing
C23_BoundedBackoff ==
  /\ [](/\ BackoffDiscipline(api)
        /\ (api.pc = "done" /\ api.outcome.kind = "throws"
              /\ SawNoRetryable(api)) =>
             api.requests = IF KeyRejected(api.apiKey) THEN 0 ELSE 1)
  /\ <>(api.pc = "done")

\* A call that was answered 429 three times: two waits, three requests
C23_Witness ==
  /\ api.pc = "done"
  /\ api.requests = 3
  /\ api.waits = <<1000, 2000>>
  /\ \A i \in 1..3 : api.responses[i].status = 429
  /\ api.outcome = Throws(MsgRateLimited)

\* The failures the service's error handling classifies: authentication
\* (400 with an invalid key, 403), rate limit, content-safety block, and an
\* empty or malformed body
Classified(r) ==
  /\ ~r.rejects
  /\ \/ r.status \in {403, 429}
     \/ r.status = 400 /\ UserMessage(r) = MsgInvalidKey
     \/ /\ ResponseOk(r) /\ r.json.parses
        /\ ThrownForBody(r) \notin {Absent, CannotReadParts}

SpecificMessage(r) == IF ResponseOk(r) THEN ThrownForBody(r) ELSE UserMessage(r)

\* 'Failed to connect to the AI service'
GenericLead == SubSeq(MsgFailedToConnect(<<>>), 1, 35)

\* C24: a call that ends on a classified failure throws the message of that
\* failure, not the generic 'Failed to connect to the AI service' message
C24_ClassifiedMessageReachesCaller ==
  (/\ api.pc = "done"
   /\ api.outcome.kind = "throws"
   /\ api.responses # <<>>
   /\ Classified(api.responses[Len(api.responses)])) =>
    /\ api.outcome.value = SpecificMessage(api.responses[Len(api.responses)])
    /\ ~StartsWith(api.outcome.value, GenericLead)

\* Paragraphs s..e joined with the separator
Joined(ps, s, e) == JoinWith(SubSeq(ps, s, e), ParaSep)

\* The last paragraph that can follow paragraph s in one chunk: every
\* paragraph after s up to it leaves the joined text within maxTokens
GroupEnd(ps, s, maxTokens) ==
  SetMax({e \in s..Len(ps) :
            \A j \in (s + 1)..e :
              (Len(Joined(ps, s, j)) + 3) \div 4 <= maxTokens})

\* The chunks of greedy accumulation from paragraph s on
RECURSIVE GreedyChunks(_, _, _, _)
GreedyChunks(ps, pageMap, maxTokens, s) ==
  IF s > Len(ps) THEN <<>>
  ELSE LET e == GroupEnd(ps, s, maxTokens)
           content == Joined(ps, s, e)
       IN  << [content |-> content, pageStart |-> pageMap[s],
               pageEnd |-> pageMap[e],
               tokenCount |-> (Len(content) + 3) \div 4] >>
           \o GreedyChunks(ps, pageMap, maxTokens, e + 1)

WithoutMethod(chunks) ==
  [i \in 1..Len(chunks) |->
     [content |-> chunks[i].content, pageStart |-> chunks[i].pageStart,
      pageEnd |-> chunks[i].pageEnd, tokenCount |-> chunks[i].tokenCount]]

\* C25: the chunks returned are those of greedy accumulation: a chunk ends
\* exactly where the next paragraph, appended with the separator, would
\* exceed maxTokens; it runs from the page of its first paragraph to the
\* page of its last, its tokenCount is ceil(length / 4); no chunk is empty,
\* and a chunk over maxTokens is one paragraph
C25_GreedyAccumulation ==
  ckPc = "returned" =>
    LET ps == TrimmedParagraphs(ckText) IN
    /\ WithoutMethod(ckOut.chunks) = GreedyChunks(ps, ckMap, ckMax, 1)
    /\ \A i \in 1..Len(ckOut.chunks) :
         /\ ckOut.chunks[i].content # <<>>
         /\ ckOut.chunks[i].tokenCount > ckMax =>
              \E j \in 1..Len(ps) : ckOut.chunks[i].content = ps[j]

\* chunkText flushed a chunk of two paragraphs from different pages before
\* a paragraph that did not fit
C25_Witness ==
  /\ ckPc = "returned"
  /\ Len(ckOut.chunks) = 2
  /\ ckOut.chunks[1].pageStart # ckOut.chunks[1].pageEnd
  /\ ckOut.chunks[1].tokenCount <= ckMax

\* The pages whose text went into fullText, and the text of each
TextPages(r) ==
  DigitalPages(doc[r])
    \cup {run[r].recognitions[i].page : i \in Contributing(run[r])}

TextOfPage(r, p) ==
  IF p \in DigitalPages(doc[r]) THEN doc[r][p]
  ELSE LET i == CHOOSE i \in Contributing(run[r]) :
                  run[r].recognitions[i].page = p
       IN  run[r].recognitions[i].text

\* C26: in every returned result each chunk's range lies within
\* 1..totalPages and covers every page whose text the chunk contains
C26_RangesCoverOrigin ==
  \A r \in RunIds :
    LET l == run[r]
        cs == l.settled.chunks
    IN  Returned(l) =>
          \A i \in 1..Len(cs) :
            /\ cs[i].pageStart \in 1..l.totalPages
            /\ cs[i].pageEnd \in 1..l.totalPages
            /\ \A p \in TextPages(r) :
                 Includes(cs[i].content, CleanUp(TextOfPage(r, p))) =>
                   cs[i].pageStart <= p /\ p <= cs[i].pageEnd

ClassifiedCodes ==
  {"INVALID_FILE_TYPE", "FILE_TOO_LARGE", "OCR_INIT_FAILED_NO_TEXT",
   "NO_TEXT_EXTRACTED", "NO_TEXT_EXTRACTED_OCR_EMPTY"}

ErrorTypeOfCode(code) ==
  CASE code = "INVALID_FILE_TYPE" -> "INVALID_FILE_TYPE"
    [] code = "FILE_TOO_LARGE" -> "FILE_TOO_LARGE"
    [] code = "OCR_INIT_FAILED_NO_TEXT" -> "OCR_INITIALIZATION"
    [] code = "NO_TEXT_EXTRACTED" -> "NO_TEXT_EXTRACTED"
    [] code = "NO_TEXT_EXTRACTED_OCR_EMPTY" -> "NO_TEXT_EXTRACTED"

\* C27: the error a run ends with, when its code is one of the five, is
\* classified by determineErrorType as the type that matches the code
C27_TypeMatchesCode ==
  \A r \in RunIds :
    LET o == run[r].outcome IN
    (o.kind = "error" /\ o.code \in ClassifiedCodes) =>
      determineErrorType(MessageOfCode(o.code)) = ErrorTypeOfCode(o.code)

C29_AtMostOneTopic ==
  \A r \in RunIds :
    LET l == run[r] IN
    Returned(l) =>
      /\ Len(l.settled.topics) <= 1
      /\ Len(l.fullText) >= 100 => l.settled.topics = <<>>

\* A result whose fullText has 100 characters and starts like a numbered
\* heading
C29_Witness ==
  \E r \in RunIds :
    /\ Returned(run[r])
    /\ Len(run[r].fullText) = 100
    /\ Numbered(run[r].fullText)
    /\ run[r].settled.topics = <<>>

\* C30: at every point of every run, ocrSucceededOnAnyPage implies
\* ocrAttemptedOnDocument, ocrAttemptedOnDocument holds iff hasScannedContent
\* holds, ocrPageCount > 0 iff ocrSucceededOnAnyPage, and a returned result
\* has hasDigitalText or ocrSucceeded.
C30_OcrFlagsOrdered ==
  \A r \in RunIds : LET l == run[r] IN
    /\ l.ocrSucceededOnAnyPage => l.ocrAttemptedOnDocument
    /\ l.ocrAttemptedOnDocument <=> l.hasScannedContent
    /\ l.ocrAttemptedOnDocument <=> l.initAttempts >= 1
    /\ l.ocrPageCount > 0 <=> l.ocrSucceededOnAnyPage
    /\ Returned(l) => \/ l.settled.metadata.hasDigitalText
                      \/ l.settled.metadata.ocrSucceeded

\* A result returned from recognised text alone: no digital text, OCR
\* attempted and succeeded, one page counted
C30_Witness ==
  \E r \in RunIds : LET l == run[r] IN
    /\ Returned(l)
    /\ ~l.settled.metadata.hasDigitalText
    /\ l.settled.metadata.ocrSucceeded
    /\ l.hasScannedContent /\ l.ocrAttemptedOnDocument
    /\ l.ocrPageCount = 1

\* A run still in its page loop after an initialisation that failed:
\* scanned content seen, OCR attempted, nothing recognised
C30_WitnessFailedInit ==
  \E r \in RunIds : LET l == run[r] IN
    /\ l.pc = "getPage"
    /\ l.hasScannedContent /\ l.ocrAttemptedOnDocument
    /\ l.ocrInitializationError # Null
    /\ ~l.ocrSucceededOnAnyPage /\ l.ocrPageCount = 0

\* The workers created for the service whose terminate() has not resolved
Live == {w \in 1..Len(svcWorkers) : ~svcWorkers[w].terminated}

\* C31: under any interleaving of initializeWorker and terminateWorker calls
\* at most one un-terminated worker exists, and it is the one the service
\* holds, so terminateWorker can release it.
C31_AtMostOneLiveWorker ==
  /\ Cardinality(Live) <= 1
  /\ \A w \in Live : svc.worker = w

\* Line 117: isInitialized()
isInitialized(s) == s.worker # NoWorker

\* Line 124: getInitializationError()
getInitializationError(s) == s.initializationError

\* C32: isInitialized() is true only once the initialisation that created the
\* worker has completed successfully, getInitializationError() is non-null
\* only if the most recent initialisation attempt failed, and the service is
\* never both initialised and failed.
C32_InitializedXorFailed ==
  /\ isInitialized(svc) => promises[svcWorkers[svc.worker].promise].state = "resolved"
  /\ getInitializationError(svc) # Null =>
        /\ promises # <<>>
        /\ promises[Len(promises)].state = "rejected"
  /\ ~(isInitialized(svc) /\ getInitializationError(svc) # Null)

\* The total asked for by the request
Asked(request) == request.mcqCount + request.fillBlankCount + request.trueFalseCount

\* The questions are grouped mcq, fillblank, truefalse, as many of each type
\* as asked for
Grouped(questions, request) ==
  \A i \in 1..Len(questions) :
    questions[i].type =
      IF i <= request.mcqCount THEN "mcq"
      ELSE IF i <= request.mcqCount + request.fillBlankCount THEN "fillblank"
      ELSE "truefalse"

DistinctIds(questions) ==
  \A i, j \in 1..Len(questions) : i # j => questions[i].id # questions[j].id

\* A call with a non-empty key that has settled returned the full set
FullSetReturned ==
  (gen.pc = "done" /\ gen.apiKey # <<>>) =>
    /\ gen.outcome.kind = "returns"
    /\ Len(gen.outcome.value) = Asked(gen.request)
    /\ Grouped(gen.outcome.value, gen.request)
    /\ DistinctIds(gen.outcome.value)

\* C33: generateQuestions can be called and, for a non-empty key, never
\* rejects and returns exactly mcqCount + fillBlankCount + trueFalseCount
\* questions, grouped mcq, fillblank, truefalse, with pairwise distinct ids,
\* whatever each of the calls of the service settles with.
C33_FullSetOfQuestions ==
  /\ gen.pc # "syntaxError"
  /\ FullSetReturned

\* C34: at most one processEnhancedPDF run started by the uploader is in
\* flight at any time, whatever the user selects, drops or retries.
C34_OneRunInFlight == Len(up.runs) <= 1

\* A retry timer fires in this step
TimerFired == Len(up'.timers) < Len(up.timers)

\* The step started a run of the file f
StartedRunOf(f) ==
  /\ Len(up'.runs) = Len(up.runs) + 1
  /\ up'.runs[Len(up'.runs)].file = f

\* C35: when a retry timer fires while a recoverable error is shown, the
\* file reprocessed is the file whose processing produced that error,
\* whether it came through the file input or was dropped.
C35_RetrySameFile ==
  [][(TimerFired /\ up.error # NoError /\ up.error.recoverable)
       => StartedRunOf(up.errorFile)]_vars

\* The step starts the processing of a file the user chose or dropped and
\* that the component has not processed before
NewFileStarted ==
  /\ Len(up'.runs) = Len(up.runs) + 1
  /\ up'.runs[Len(up'.runs)].via \in {"input", "drop"}
  /\ up'.runs[Len(up'.runs)].file \notin up.seen

\* C36: retryCount is 0 when the processing of a newly chosen file begins,
\* after any sequence of failures, retries and clicks on Try Different File
\* or Try Another File, so its first recoverable failure allows 3 retries.
C36_FullRetryBudget == [][NewFileStarted => up'.retryCount = 0]_vars
====
